---- MODULE Spec2Model ----
(***************************************************************************)
(* State-machine model of the school-comms-aggregator synchronization and  *)
(* reconciliation engine: the persistent checklist (ChecklistService), the *)
(* source sync passes (SyncService) and the rolling daily summaries        *)
(* (SummaryService).  Each subsystem has its own specification over the    *)
(* shared store variables.                                                 *)
(***************************************************************************)
EXTENDS Integers, Sequences, FiniteSets, TLC

VARIABLES
    checklist,   \* committed rows of table checklist_items
    last,        \* the last checklist operation: its arguments, what it read, its result
    ratios,      \* SequenceMatcher ratios of the text pairs, computed once at start
    db,          \* committed rows of communication_items, attachments and sync_state
    session,     \* the rows the open SQLAlchemy session of a sync pass sees
    sync,        \* local variables and position of the running sync pass
    sync_out,    \* what the caller of the last sync pass got back
    worker,      \* the SyncWorker thread: how far run() has come in its source list
                 \* (todo) and the sources whose sync function has returned (done)
    summaries,   \* committed rows of table daily_summaries
    sum,         \* local variables and position of the running summary generation
    sum_out,     \* what the caller of the last summary generation got back
    sum_clock,   \* the number of summary generations begun: their datetime.now()
    fetch,       \* local variables and position of a running page loop of an adapter
    ui,          \* MainWindow: its worker references and the worker threads alive
    agg,         \* what the last get_aggregated_summary call returned
    pdf,         \* the last pass of the PDF post-processor: what it selected and did
    call,        \* the last whole sync call: what it was fed and how it ended
    parse,       \* the response text a day's summary was made from and the row stored
    run,         \* a worker thread's run(): its position and the signals it emitted
    cursor,      \* mail passes against a paged list: the tokens used and returned
    scan,        \* one fetch_all_* call over a feed of several pages
    recon,       \* a reconciliation run in flight while the user checks items
    incr,        \* incremental childcare passes over a feed that grows
    chain        \* the window, its sync worker's run over its sources and what follows

clVars == <<checklist, last, ratios>>
syncVars == <<db, session, sync, sync_out, worker>>
sumVars == <<summaries, sum, sum_out, sum_clock>>
seqVars == <<cursor, scan, recon, incr, chain>>
extVars == <<pdf, call, parse, run, seqVars>>
auxVars == <<fetch, ui, agg, extVars>>
vars == <<checklist, last, ratios, db, session, sync, sync_out, worker,
          summaries, sum, sum_out, sum_clock, fetch, ui, agg, pdf, call, parse, run,
          cursor, scan, recon, incr, chain>>

----------------------------------------------------------------------------
(* Bounds of the model *)

\* largest row id of checklist_items the model lets an insert reach
MaxId == 2
\* datetime.now() returns an instant of 0..MaxClock
MaxClock == 0
\* generate_rolling_summaries is called at most MaxRuns times
MaxRuns == 2
\* MainWindow creates at most MaxWorkers worker threads
MaxWorkers == 3
\* at most MaxCalls whole sync calls follow one another
MaxCalls == 2
\* at most MaxThreads worker threads run one after the other
MaxThreads == 2
\* a service call passes at most MaxProgress messages to its progress callback
MaxProgress == 2

\* passes of sync_gmail against the paged list, and the pages of the list
MaxPasses == 3
MaxServerPages == 3

\* pages of a student's feed a fetch_all_* call can be served
MaxFeed == 2

\* instants of the clock the source and datetime.now() read
MaxTicks == 2
----------------------------------------------------------------------------
(* Values *)

\* Python's None, and a present value v, of a nullable field or variable
None == <<>>
Some(v) == <<v>>

Categories == {"action_items", "key_dates"}

\* Item texts.  "Pay1" and "pay2" have ratio 0.75 once lowered (0.5 as
\* written); "Pa" has ratio 2/3 with both.
Texts == {"Pay1", "pay2", "Pa"}

\* the characters of a text
Chars(t) ==
    CASE t = "Pay1" -> <<"P", "a", "y", "1">>
      [] t = "pay2" -> <<"p", "a", "y", "2">>
      [] t = "Pa" -> <<"P", "a">>
      [] t = "pay1" -> <<"p", "a", "y", "1">>
      [] t = " pay1 " -> <<" ", "p", "a", "y", "1", " ">>

\* new_texts arguments: the empty list, every one-text and every two-text list
NewTextLists == {<<>>} \cup {<<a>> : a \in Texts} \cup {<<a, b>> : a \in Texts, b \in Texts}

Max(S) == CHOOSE x \in S : \A y \in S : y <= x

\* the least element of a set of integers, 0 for the empty set
Min0(S) == IF S = {} THEN 0 ELSE CHOOSE x \in S : \A y \in S : x <= y

\* ascending list of a finite set of integers
RECURSIVE SortedSeq(_)
SortedSeq(S) ==
    IF S = {} THEN <<>>
    ELSE LET m == Max(S) IN Append(SortedSeq(S \ {m}), m)

----------------------------------------------------------------------------
(* str.lower() and difflib.SequenceMatcher(None, a, b).ratio() *)

LowerChar(c) ==
    CASE c = "P" -> "p"
      [] OTHER -> c

lower(s) == [i \in 1..Len(s) |-> LowerChar(s[i])]

\* a[i:i+k] == b[j:j+k], 0-based offsets as in difflib
BlockEqual(a, b, i, j, k) == \A d \in 0..(k - 1) : a[i + d + 1] = b[j + d + 1]

\* difflib's find_longest_match without junk: the longest common block of
\* a[alo:ahi] and b[blo:bhi]; of the longest the one starting earliest in a,
\* and of those the one starting earliest in b.  <<alo, blo, 0>> when none.
find_longest_match(a, b, alo, ahi, blo, bhi) ==
    LET cands == {c \in (alo..(ahi - 1)) \X (blo..(bhi - 1)) \X (1..(ahi - alo)) :
                    /\ c[1] + c[3] <= ahi
                    /\ c[2] + c[3] <= bhi
                    /\ BlockEqual(a, b, c[1], c[2], c[3])}
        Better(c, d) == \/ c[3] > d[3]
                        \/ c[3] = d[3] /\ c[1] < d[1]
                        \/ c[3] = d[3] /\ c[1] = d[1] /\ c[2] <= d[2]
    IN  IF cands = {} THEN <<alo, blo, 0>>
        ELSE CHOOSE c \in cands : \A d \in cands : Better(c, d)

\* total size of get_matching_blocks(): the longest block, then recursively
\* the pieces to its left and to its right
RECURSIVE MatchingSize(_, _, _, _, _, _)
MatchingSize(a, b, alo, ahi, blo, bhi) ==
    LET m == find_longest_match(a, b, alo, ahi, blo, bhi)
    IN  IF m[3] = 0 THEN 0
        ELSE m[3]
             + MatchingSize(a, b, alo, m[1], blo, m[2])
             + MatchingSize(a, b, m[1] + m[3], ahi, m[2] + m[3], bhi)

\* ratio() = 2.0 * M / T, or 1.0 when both are empty: kept as the exact
\* fraction <<numerator, denominator>>
ratio(a, b) ==
    LET T == Len(a) + Len(b)
    IN  IF T = 0 THEN <<1, 1>> ELSE <<2 * MatchingSize(a, b, 0, Len(a), 0, Len(b)), T>>

\* MATCH_THRESHOLD = 0.75 = 3/4
MATCH_THRESHOLD_NUM == 3
MATCH_THRESHOLD_DEN == 4

RatioGT(r, s) == r[1] * s[2] > s[1] * r[2]
RatioGE(r, s) == r[1] * s[2] >= s[1] * r[2]

\* the ratio of every pair of texts
RatioTable == [p \in Texts \X Texts |-> ratio(lower(Chars(p[1])), lower(Chars(p[2])))]

\* SequenceMatcher(None, item.item_text.lower(), new_text.lower()).ratio()
ItemRatio(item_text, new_text) == ratios[<<item_text, new_text>>]

----------------------------------------------------------------------------
(* The session of one unit of work *)

\* session.commit(): the rows the session sees become the committed rows
commit(committed, sess) == sess

\* a rollback that lets the flushed items and attachments through
rollback_KeepsFlushed(committed, sess) ==
    [committed EXCEPT !.items = sess.items, !.attachments = sess.attachments]

\* a rollback that also clears every sync_state row
rollback_ResetsSyncState(committed, sess) ==
    [committed EXCEPT !.sync_state = [s \in DOMAIN @ |-> <<>>]]

\* a rollback that keeps what the session had pending
rollback_KeepsPending(committed, sess) == sess

\* session.rollback(): the committed rows stay as they were
rollback(committed, sess) == committed

----------------------------------------------------------------------------
(* ChecklistService *)

NoOp == [op |-> "none"]

\* datetime.now()
Now == 0..MaxClock

ChecklistItem(id, category, item_text) ==
    [id |-> id, category |-> category, item_text |-> item_text,
     is_checked |-> FALSE, checked_at |-> None]

\* session.query(ChecklistItem).get(item_id)
HasItem(rows, item_id) == \E r \in rows : r.id = item_id
GetItem(rows, item_id) == CHOOSE r \in rows : r.id = item_id

\* an update of is_checked that leaves checked_at as it was
SetChecked_FlagOnly(item, checked, now) == [item EXCEPT !.is_checked = checked]

\* item.is_checked = checked; item.checked_at = datetime.now() if checked else None
SetChecked(item, checked, now) ==
    [item EXCEPT !.is_checked = checked,
                 !.checked_at = IF checked THEN Some(now) ELSE None]

toggle_item(item_id) ==
    IF ~HasItem(checklist, item_id)
    THEN /\ last' = [op |-> "toggle_item", id |-> item_id, found |-> FALSE, ret |-> FALSE]
         /\ UNCHANGED <<checklist, ratios, syncVars, sumVars, auxVars>>
    ELSE \E now \in Now :
           LET item == GetItem(checklist, item_id)
               new == SetChecked(item, ~item.is_checked, now)
           IN  /\ checklist' = (checklist \ {item}) \cup {new}
               /\ last' = [op |-> "toggle_item", id |-> item_id, found |-> TRUE,
                           ret |-> new.is_checked]
               /\ UNCHANGED <<ratios, syncVars, sumVars, auxVars>>

set_item_checked(item_id, checked) ==
    IF ~HasItem(checklist, item_id)
    THEN /\ last' = [op |-> "set_item_checked", id |-> item_id, found |-> FALSE]
         /\ UNCHANGED <<checklist, ratios, syncVars, sumVars, auxVars>>
    ELSE \E now \in Now :
           LET item == GetItem(checklist, item_id)
           IN  /\ checklist' = (checklist \ {item}) \cup {SetChecked(item, checked, now)}
               /\ last' = [op |-> "set_item_checked", id |-> item_id, found |-> TRUE]
               /\ UNCHANGED <<ratios, syncVars, sumVars, auxVars>>

\* session.query(ChecklistItem).filter_by(category=category).all()
Existing(rows, category) == {r \in rows : r.category = category}

\* iteration order of existing_map: the rows in rowid order
ExistingOrder(existing) == SortedSeq({r.id : r \in existing})

\* a comparison that accepts no candidate
IsBetterMatch_Never(r, best_ratio) == FALSE

\* a comparison that lets a later candidate of equal ratio replace the best
IsBetterMatch_TakesEqual(r, best_ratio) ==
    RatioGE(r, best_ratio) /\ RatioGE(r, <<MATCH_THRESHOLD_NUM, MATCH_THRESHOLD_DEN>>)

\* ratio > best_ratio and ratio >= MATCH_THRESHOLD
IsBetterMatch(r, best_ratio) ==
    RatioGT(r, best_ratio) /\ RatioGE(r, <<MATCH_THRESHOLD_NUM, MATCH_THRESHOLD_DEN>>)

\* the inner loop over existing_map for one new text: best_match_id
RECURSIVE BestScan(_, _, _, _, _, _, _)
BestScan(existing, order, k, new_text, matched_existing_ids, best_match_id, best_ratio) ==
    IF k > Len(order) THEN best_match_id
    ELSE LET item_id == order[k]
             r == ItemRatio(GetItem(existing, item_id).item_text, new_text)
         IN  IF item_id \in matched_existing_ids
             THEN BestScan(existing, order, k + 1, new_text, matched_existing_ids,
                           best_match_id, best_ratio)
             ELSE IF IsBetterMatch(r, best_ratio)
             THEN BestScan(existing, order, k + 1, new_text, matched_existing_ids,
                           Some(item_id), r)
             ELSE BestScan(existing, order, k + 1, new_text, matched_existing_ids,
                           best_match_id, best_ratio)

\* the matching loop over new_texts from index new_idx on.  m maps each id of
\* matched_existing_ids to the index of the new text that matched it (the
\* indices are matched_new_indices)
RECURSIVE MatchLoop(_, _, _, _, _)
MatchLoop(existing, order, new_texts, new_idx, m) ==
    IF new_idx > Len(new_texts) THEN m
    ELSE LET best == BestScan(existing, order, 1, new_texts[new_idx], DOMAIN m,
                              None, <<0, 1>>)
         IN  IF best = None
             THEN MatchLoop(existing, order, new_texts, new_idx + 1, m)
             ELSE MatchLoop(existing, order, new_texts, new_idx + 1,
                            [i \in DOMAIN m \cup {best[1]} |->
                               IF i = best[1] THEN new_idx ELSE m[i]])

Matching(existing, new_texts) ==
    MatchLoop(existing, ExistingOrder(existing), new_texts, 1, <<>>)

matched_new_indices(m) == {m[i] : i \in DOMAIN m}

\* a matched item rebuilt as a fresh unchecked row instead of updated in place
UpdateMatched_Unchecks(item, new_text) ==
    [item EXCEPT !.item_text = new_text, !.is_checked = FALSE, !.checked_at = None]

\* existing_map[best_match_id].item_text = new_text
UpdateMatched(item, new_text) == [item EXCEPT !.item_text = new_text]

\* the deletion loop without its "and not item.is_checked"
ShouldDelete_IgnoresChecked(item, matched_existing_ids) ==
    item.id \notin matched_existing_ids

\* a deletion loop that removes every unchecked item, matched or not
ShouldDelete_IgnoresMatched(item, matched_existing_ids) == ~item.is_checked

\* item_id not in matched_existing_ids and not item.is_checked
ShouldDelete(item, matched_existing_ids) ==
    item.id \notin matched_existing_ids /\ ~item.is_checked

\* the new_texts indices the second loop inserts, in list order
AddedIndices(new_texts, m) == SortedSeq((1..Len(new_texts)) \ matched_new_indices(m))

\* rowid given to the next inserted row: one past the largest in the table
NextRowId(rows) == IF rows = {} THEN 1 ELSE Max({r.id : r \in rows}) + 1

\* the table after the commit of one reconciliation run with matching m:
\* matched rows updated, the unmatched new texts inserted, then the deletions
Reconciled(rows, category, new_texts, m) ==
    LET existing == Existing(rows, category)
        add == AddedIndices(new_texts, m)
        base == NextRowId(rows)
        kept == {r \in existing : ~ShouldDelete(r, DOMAIN m)}
    IN  (rows \ existing)
        \cup {IF r.id \in DOMAIN m THEN UpdateMatched(r, new_texts[m[r.id]]) ELSE r :
                r \in kept}
        \cup {ChecklistItem(base + k - 1, category, new_texts[add[k]]) : k \in 1..Len(add)}

\* the call repeats the operation before it: that one was a reconciliation of
\* the same category with the same new_texts
IsRepeat(previous, category, new_texts) ==
    /\ previous.op = "sync_items_from_summary"
    /\ previous.category = category
    /\ previous.new_texts = new_texts

sync_items_from_summary(category, new_texts) ==
    LET existing == Existing(checklist, category)
        m == Matching(existing, new_texts)
    IN  /\ NextRowId(checklist) + Len(AddedIndices(new_texts, m)) - 1 <= MaxId
        /\ checklist' = Reconciled(checklist, category, new_texts, m)
        /\ last' = [op |-> "sync_items_from_summary", category |-> category,
                    new_texts |-> new_texts, before |-> existing, matched |-> m,
                    repeated |-> IsRepeat(last, category, new_texts)]
        /\ UNCHANGED <<ratios, syncVars, sumVars, auxVars>>

\* the writes of a run that the session holds when an exception is raised
\* at the given point: by the query, after the matching loop, after the
\* insertion loop, or by the commit (after the deletion loop)
Pending(rows, category, new_texts, m, point) ==
    LET existing == Existing(rows, category)
        add == AddedIndices(new_texts, m)
        base == NextRowId(rows)
        updated == (rows \ existing)
                   \cup {IF r.id \in DOMAIN m THEN UpdateMatched(r, new_texts[m[r.id]])
                         ELSE r : r \in existing}
        inserted == updated
                    \cup {ChecklistItem(base + k - 1, category, new_texts[add[k]]) :
                            k \in 1..Len(add)}
    IN  CASE point = "query" -> rows
          [] point = "match" -> updated
          [] point = "insert" -> inserted
          [] point = "commit" -> Reconciled(rows, category, new_texts, m)

\* the points of a run at which an exception is raised
FailurePoints == {"query", "match", "insert", "commit"}

\* sync_items_from_summary ended by an exception: session.rollback(); raise.
\* The table the call leaves
sync_items_from_summary_raises(rows, category, new_texts, point) ==
    rollback(rows,
             Pending(rows, category, new_texts,
                     Matching(Existing(rows, category), new_texts), point))

\* the record of that call
LastFailure(rows, category, new_texts, point) ==
    [op |-> "sync_items_from_summary_raised", category |-> category,
     discarded |-> Pending(rows, category, new_texts,
                           Matching(Existing(rows, category), new_texts), point) # rows,
     persisted |-> sync_items_from_summary_raises(rows, category, new_texts, point) # rows]

ClInit ==
    /\ checklist = {}
    /\ last = NoOp
    /\ ratios = RatioTable

ClNext ==
    \/ \E item_id \in 1..MaxId : toggle_item(item_id)
    \/ \E item_id \in 1..MaxId, checked \in BOOLEAN : set_item_checked(item_id, checked)
    \/ \E category \in Categories, new_texts \in NewTextLists :
          sync_items_from_summary(category, new_texts)

----------------------------------------------------------------------------
(* SyncService *)

Sources == {"gmail", "brightwheel", "whatsapp"}

\* calendar dates of timestamps; date.today() is Today
Dates == {"mon", "tue"}
Today == "tue"

\* nextPageToken values of the Gmail list call
Tokens == {"t1"}
TokenOpt == {None} \cup {Some(t) : t \in Tokens}

\* max_pages = 10  # Safety limit
max_pages == 10

\* Gmail message resources messages().get can return: id, whether the
\* resource has its "payload" key (parse_message raises KeyError without it),
\* the date of internalDate and the mime types of the attachment parts
GmailMessages ==
    { [id |-> "m1", payload |-> TRUE, internalDate |-> "mon",
       attachments |-> <<"application/pdf">>],
      [id |-> "m2", payload |-> FALSE, internalDate |-> "tue", attachments |-> <<>>] }

\* one fetched page: the full messages of the listed stubs
GmailPages ==
    {<<>>} \cup {<<a>> : a \in GmailMessages}
           \cup {<<a, b>> : a \in GmailMessages, b \in GmailMessages}

\* Brightwheel activities of a student's feed: object_id ("" when the key is
\* missing), created_at (None when it parses as no timestamp) and the mime
\* types the media urls map to through _EXT_MIME_MAP
BwActivities ==
    { [object_id |-> "a1", created_at |-> Some("mon"), media |-> <<"application/pdf">>],
      [object_id |-> "", created_at |-> Some("tue"), media |-> <<>>] }

\* Brightwheel messages of a student's feed
BwMessages ==
    { [object_id |-> "g1", created_at |-> None, attachments |-> <<"image/jpeg">>] }

\* what fetch_all_activities / fetch_all_messages return for one student
BwActivityLists ==
    {<<>>} \cup {<<a>> : a \in BwActivities}
           \cup {<<a, b>> : a \in BwActivities, b \in BwActivities}
BwMessageLists == {<<>>} \cup {<<a>> : a \in BwMessages}

\* bw.get_students(guardian_id): the object_id of each entry ("" when missing)
StudentLists == {<<>>, <<"s1">>, <<"", "s1">>, <<"s1", "s2">>}

\* get_wa_groups()
GroupLists == {<<>>, <<"g1">>, <<"g1", "g2">>}

\* records scrape_group builds: source_id is "wa_" + generate_source_id's hash
WaMessages == { [source_id |-> "wa_1", timestamp |-> "tue"] }
WaMessageLists ==
    {<<>>} \cup {<<a>> : a \in WaMessages}
           \cup {<<a, b>> : a \in WaMessages, b \in WaMessages}

\* rows
CommunicationItem(id, source, source_id, timestamp) ==
    [id |-> id, source |-> source, source_id |-> source_id, timestamp |-> timestamp]

Attachment(id, communication_id, mime_type) ==
    [id |-> id, communication_id |-> communication_id, mime_type |-> mime_type,
     is_downloaded |-> FALSE, local_path |-> None, extracted_text |-> None]

\* a Sync State update that leaves the cursor empty
SyncState_DropsCursor(last_sync_at, page_cursor) ==
    [last_sync_at |-> last_sync_at, page_cursor |-> <<>>]

SyncState(last_sync_at, page_cursor) ==
    [last_sync_at |-> last_sync_at, page_cursor |-> page_cursor]

\* the tables of a fresh database: no row of any table
EmptyDb ==
    [items |-> {}, attachments |-> {}, sync_state |-> [s \in Sources |-> None]]

\* a lookup that never finds the row
query_by_source_id_FindsNone(sess, source_id) == {}

\* session.query(CommunicationItem).filter_by(source_id=source_id)
query_by_source_id(sess, source_id) ==
    {i \in sess.items : i.source_id = source_id}

\* a writer that puts the new row in the place of the rows of the table
add_item_Replaces(sess, source, source_id, timestamp, mime_types) ==
    [sess EXCEPT !.items = {CommunicationItem(NextRowId(sess.items), source, source_id,
                                              timestamp)}]

\* session.add(item); session.flush(); then session.add(att) for each
\* attachment, with communication_id = item.id
add_item(sess, source, source_id, timestamp, mime_types) ==
    LET item_id == NextRowId(sess.items)
        att_base == NextRowId(sess.attachments)
    IN  [sess EXCEPT
           !.items = @ \cup {CommunicationItem(item_id, source, source_id, timestamp)},
           !.attachments = @ \cup {Attachment(att_base + k - 1, item_id, mime_types[k]) :
                                     k \in 1..Len(mime_types)}]

\* the outcome of handling one fetched record: the session afterwards, the
\* number of rows counted as new, whether an exception was raised, and the
\* source_id the record was looked up by
Stored(sess, ret, raised, source_id) ==
    [session |-> sess, ret |-> ret, raised |-> raised, source_id |-> source_id]

\* the body of sync_gmail's "for msg in messages"
store_gmail_message(sess, msg) ==
    IF ~msg.payload THEN Stored(sess, 0, TRUE, "")
    ELSE LET source_id == "gmail_" \o msg.id
         IN  IF query_by_source_id(sess, source_id) # {}
             THEN Stored(sess, 0, FALSE, source_id)
             ELSE Stored(add_item(sess, "gmail", source_id, msg.internalDate,
                                  msg.attachments),
                         1, FALSE, source_id)

\* BrightwheelService.parse_activity / parse_message: the fields the writer reads
parse_activity(activity) ==
    [source_id |-> "bw_act_" \o activity.object_id,
     timestamp |-> activity.created_at, photos |-> activity.media]

parse_message(msg) ==
    [source_id |-> "bw_msg_" \o msg.object_id,
     timestamp |-> msg.created_at, photos |-> msg.attachments]

\* _store_bw_item without the lookup of an existing row
store_bw_item_NoLookup(sess, parsed) ==
    IF parsed.source_id \in {"", "bw_act_", "bw_msg_"}
    THEN Stored(sess, 0, FALSE, parsed.source_id)
    ELSE Stored(add_item(sess, "brightwheel", parsed.source_id,
                         IF parsed.timestamp = None THEN Today ELSE parsed.timestamp[1],
                         parsed.photos),
                1, FALSE, parsed.source_id)

\* SyncService._store_bw_item
store_bw_item(sess, parsed) ==
    IF parsed.source_id \in {"", "bw_act_", "bw_msg_"}
    THEN Stored(sess, 0, FALSE, parsed.source_id)
    ELSE IF query_by_source_id(sess, parsed.source_id) # {}
    THEN Stored(sess, 0, FALSE, parsed.source_id)
    ELSE Stored(add_item(sess, "brightwheel", parsed.source_id,
                         IF parsed.timestamp = None THEN Today ELSE parsed.timestamp[1],
                         parsed.photos),
                1, FALSE, parsed.source_id)

store_bw_activity(sess, activity) == store_bw_item(sess, parse_activity(activity))
store_bw_message(sess, msg) == store_bw_item(sess, parse_message(msg))

\* the body of sync_whatsapp's "for msg in messages"
store_whatsapp_message(sess, msg) ==
    IF query_by_source_id(sess, msg.source_id) # {}
    THEN Stored(sess, 0, FALSE, msg.source_id)
    ELSE Stored(add_item(sess, "whatsapp", msg.source_id, msg.timestamp, <<>>),
                1, FALSE, msg.source_id)

\* what one handled record did, kept for the records of the last fetch:
\* whether a row with its source_id was visible before, what the writer
\* returned, whether any row or attachment changed, and how many rows have
\* the source_id afterwards
StoreEntry(sess, r) ==
    [source_id |-> r.source_id,
     existed |-> \E i \in sess.items : i.source_id = r.source_id,
     ret |-> r.ret,
     changed |-> r.session # sess,
     rows |-> Cardinality({i \in r.session.items : i.source_id = r.source_id})]

\* a "for record in records" loop around one of the writers: stops at the
\* record that raises
\* the writer each loop calls on its records
store_record(writer, sess, record) ==
    CASE writer = "gmail" -> store_gmail_message(sess, record)
      [] writer = "bw_activity" -> store_bw_activity(sess, record)
      [] writer = "bw_message" -> store_bw_message(sess, record)
      [] writer = "whatsapp" -> store_whatsapp_message(sess, record)

RECURSIVE StoreEach(_, _, _, _, _)
StoreEach(writer, sess, records, total_new, log) ==
    IF records = <<>>
    THEN [session |-> sess, total_new |-> total_new, raised |-> FALSE, log |-> log,
          unparsed |-> None]
    ELSE LET r == store_record(writer, sess, Head(records))
         IN  IF r.raised
             THEN [session |-> sess, total_new |-> total_new, raised |-> TRUE, log |-> log,
                   unparsed |-> Some(Head(records).id)]
             ELSE StoreEach(writer, r.session, Tail(records), total_new + r.ret,
                            Append(log, StoreEntry(sess, r)))

\* no sync pass is running
Idle ==
    [pc |-> "idle", source |-> "", page_token |-> None, next_token |-> None,
     pages_fetched |-> 0, total_new |-> 0, todo |-> <<>>, since |-> None,
     log |-> <<>>, before |-> EmptyDb]

\* what the caller of a sync pass observes: a normal return or an exception,
\* with the committed rows the pass started from
\* now is the datetime.now() the pass wrote to its Sync State, next_token the
\* continuation of its last page fetch, skipped that it returned before
\* opening a session (no WhatsApp group configured)
SyncOutcome(source, status, total_new, before, now, next_token, skipped) ==
    [source |-> source, status |-> status, total_new |-> total_new, before |-> before,
     now |-> now, next_token |-> next_token, skipped |-> skipped]

\* no sync pass has returned to its caller yet
NoOutcome == SyncOutcome("", "none", 0, EmptyDb, None, None, FALSE)

\* the source lists MainWindow starts a SyncWorker with: _sync_all and
\* _sync_source
SourceLists == {<<"gmail", "brightwheel", "whatsapp">>} \cup {<<s>> : s \in Sources}

\* no SyncWorker has been started yet
NoWorker == [status |-> "idle", todo |-> <<>>, done |-> <<>>]

\* SyncWorker(sources).start(): run() begins with the whole list to do
SyncWorker_start(sources) ==
    /\ worker.status # "running"
    /\ worker' = [status |-> "running", todo |-> sources, done |-> <<>>]
    /\ sync_out' = NoOutcome
    /\ UNCHANGED <<db, session, sync, clVars, sumVars, auxVars>>

\* "for source in self._sources": the loop of run() is at source
AtSource(source) ==
    /\ worker.status = "running"
    /\ sync.pc = "idle"
    /\ worker.todo # <<>>
    /\ Head(worker.todo) = source

\* the loop of run() has called the sync function of its next source
Called == [worker EXCEPT !.todo = Tail(@)]

\* the sync function of source has returned to the loop of run()
Returned(w, source) == [w EXCEPT !.done = Append(@, source)]

\* except Exception as e: self.error_signal.emit(str(e)); the sources left
\* in todo are not synced
Failed == [worker EXCEPT !.status = "error"]

\* the loop of run() is over: self.finished_signal.emit()
SyncWorker_finished ==
    /\ worker.status = "running"
    /\ sync.pc = "idle"
    /\ worker.todo = <<>>
    /\ worker' = [worker EXCEPT !.status = "finished"]
    /\ UNCHANGED <<db, session, sync, sync_out, clVars, sumVars, auxVars>>

\* state.last_sync_at if state else None
last_sync_at_of(state) == IF state = None THEN None ELSE state[1].last_sync_at

\* a pass that always starts at the head of the list
page_cursor_of_Head(state) == None

\* state.page_cursor if state else None
page_cursor_of(state) == IF state = None THEN None ELSE state[1].page_cursor

\* except Exception: session.rollback(); raise.  total_new is the pass's
\* counter of rows it had added when the exception was raised
Raise(total_new) ==
    /\ db' = rollback(db, session)
    /\ session' = db'
    /\ sync' = Idle
    /\ sync_out' = SyncOutcome(sync.source, "error", total_new, sync.before,
                               None, None, FALSE)
    /\ worker' = Failed

\* an exception before the session is opened: authenticate(),
\* restore_session(), get_current_user(), get_students(), has_session()
sync_preamble_raises(source) ==
    /\ AtSource(source)
    /\ sync_out' = SyncOutcome(source, "error", 0, db, None, None, FALSE)
    /\ worker' = [Called EXCEPT !.status = "error"]
    /\ UNCHANGED <<db, session, sync, clVars, sumVars, auxVars>>

\* an exception at the point the pass has reached: the next fetch, a write,
\* the flush, the update of the sync state or the commit
sync_raises ==
    /\ sync.pc # "idle"
    /\ Raise(sync.total_new)
    /\ UNCHANGED <<clVars, sumVars, auxVars>>

\* sync_gmail up to the while loop
sync_gmail_begin ==
    /\ AtSource("gmail")
    /\ worker' = Called
    /\ sync' = [Idle EXCEPT !.pc = "gmail_page", !.source = "gmail",
                            !.page_token = page_cursor_of(session.sync_state["gmail"]),
                            !.before = db]
    /\ sync_out' = NoOutcome
    /\ UNCHANGED <<db, session, clVars, sumVars, auxVars>>

\* a loop that goes on whenever a continuation came with the page
gmail_loop_continues_NoLimit(pages_fetched, messages, next_token) ==
    messages # <<>> /\ next_token # None

\* sync_gmail runs its while loop once more after a fetch: the page was not
\* empty ("if not messages: break"), it came with a continuation ("if not
\* next_token: break") and pages_fetched, already incremented, is below
\* max_pages
gmail_loop_continues(pages_fetched, messages, next_token) ==
    messages # <<>> /\ next_token # None /\ pages_fetched < max_pages

\* one iteration of "while pages_fetched < max_pages"
sync_gmail_page ==
    /\ sync.pc = "gmail_page"
    /\ \E messages \in GmailPages, next_token \in TokenOpt :
          IF messages = <<>>
          THEN /\ sync' = [sync EXCEPT !.pc = "gmail_finish", !.next_token = next_token,
                                       !.log = <<>>]
               /\ UNCHANGED <<db, session, sync_out, worker>>
          ELSE LET r == StoreEach("gmail", session, messages,
                                  sync.total_new, <<>>)
               IN  IF r.raised THEN Raise(r.total_new)
                   ELSE /\ session' = r.session
                        /\ sync' = [sync EXCEPT
                              !.pc = IF gmail_loop_continues(sync.pages_fetched + 1,
                                                             messages, next_token)
                                     THEN "gmail_page" ELSE "gmail_finish",
                              !.pages_fetched = @ + 1,
                              !.page_token = next_token,
                              !.next_token = next_token,
                              !.total_new = r.total_new,
                              !.log = r.log]
                        /\ UNCHANGED <<db, sync_out, worker>>
    /\ UNCHANGED <<clVars, sumVars, auxVars>>

\* sync_gmail from "# Update sync state" to the commit
sync_gmail_finish ==
    /\ sync.pc = "gmail_finish"
    /\ \E now \in Now :
          /\ db' = commit(db, [session EXCEPT !.sync_state["gmail"] =
                                  Some(SyncState(Some(now), sync.next_token))])
          /\ session' = db'
          /\ sync_out' = SyncOutcome("gmail", "ok", sync.total_new, sync.before,
                                     Some(now), sync.next_token, FALSE)
          /\ sync' = Idle
    /\ worker' = Returned(worker, "gmail")
    /\ UNCHANGED <<clVars, sumVars, auxVars>>

\* a query that also selects the rows already downloaded
pending_pdfs_All(committed) ==
    {a \in committed.attachments :
        /\ a.mime_type = "application/pdf"
        /\ \E i \in committed.items :
              i.id = a.communication_id /\ i.source = "brightwheel"}

\* the rows _download_and_extract_pdfs queries as pending_pdfs
pending_pdfs(committed) ==
    {a \in committed.attachments :
        /\ a.mime_type = "application/pdf"
        /\ ~a.is_downloaded
        /\ \E i \in committed.items :
              i.id = a.communication_id /\ i.source = "brightwheel"}

\* PDF_MAX_SIZE = 10 * 1024 * 1024  # 10 MB
PDF_MAX_SIZE == 10 * 1024 * 1024

\* what the download of one attachment meets: whether http_session.get or
\* raise_for_status raises, the content-length header (0 when absent), the
\* lengths of the chunks iter_content yields (a run of chunks through which
\* the running total stays on one side of the ceiling is written as one
\* length), whether pdfplumber opens the file, and the text of its pages
PdfResponse(raises, content_length, chunks, opens, text) ==
    [raises |-> raises, content_length |-> content_length, chunks |-> chunks,
     opens |-> opens, text |-> text]

PdfResponses ==
    { PdfResponse(TRUE, 0, <<>>, FALSE, ""),
      PdfResponse(FALSE, PDF_MAX_SIZE + 1, <<1>>, TRUE, "t"),
      PdfResponse(FALSE, PDF_MAX_SIZE, <<PDF_MAX_SIZE>>, TRUE, "t"),
      PdfResponse(FALSE, 0, <<PDF_MAX_SIZE, 1>>, TRUE, "t"),
      PdfResponse(FALSE, 1, <<1, PDF_MAX_SIZE>>, TRUE, "t"),
      PdfResponse(FALSE, 0, <<1, 1>>, TRUE, "t"),
      PdfResponse(FALSE, 0, <<1>>, TRUE, ""),
      PdfResponse(FALSE, 0, <<1>>, FALSE, "") }

\* the responses met by the PDF pass a sync pass ends with
SyncPdfResponses ==
    { PdfResponse(TRUE, 0, <<>>, FALSE, ""),
      PdfResponse(FALSE, 0, <<1, 1>>, TRUE, "t") }

\* a size guard that lets every size through
exceeds_Never(n) == FALSE

\* content_length > PDF_MAX_SIZE, total_bytes > PDF_MAX_SIZE
exceeds(n) == n > PDF_MAX_SIZE

\* "for chunk in resp.iter_content(chunk_size=8192)": whether the loop ended
\* without break, the bytes it read and the bytes it kept
RECURSIVE read_content(_, _, _)
read_content(stream, total_bytes, kept) ==
    IF stream = <<>>
    THEN [completed |-> TRUE, total_bytes |-> total_bytes, kept |-> kept]
    ELSE IF exceeds(total_bytes + Head(stream))
    THEN [completed |-> FALSE, total_bytes |-> total_bytes + Head(stream), kept |-> kept]
    ELSE read_content(Tail(stream), total_bytes + Head(stream), kept + Head(stream))

\* str(ATTACHMENTS_DIR / f"{att.communication_id}_{att.id}_{safe_filename}")
LocalPath(att) == <<att.communication_id, att.id>>

\* what the loop did with one attachment: the row as the session holds it
\* afterwards, how the iteration ended, and the body bytes it read
Handled(att, outcome, read) == [att |-> att, outcome |-> outcome, read |-> read]

\* the body of "for att in pending_pdfs": an exception inside is logged and
\* the loop goes on
download_pdf(att, resp) ==
    IF resp.raises THEN Handled(att, "failed", 0)
    ELSE IF exceeds(resp.content_length) THEN Handled(att, "too_large", 0)
    ELSE LET r == read_content(resp.chunks, 0, 0)
         IN  IF ~r.completed THEN Handled(att, "exceeded", r.total_bytes)
             ELSE IF ~resp.opens THEN Handled(att, "unreadable", r.total_bytes)
             ELSE Handled([att EXCEPT !.local_path = Some(LocalPath(att)),
                                      !.is_downloaded = TRUE,
                                      !.extracted_text =
                                          IF resp.text = "" THEN None
                                          ELSE Some(resp.text)],
                          "downloaded", r.total_bytes)

\* the ids of the rows a pass selects
pending_ids(committed) == {a.id : a \in pending_pdfs(committed)}

\* no pass of the post-processor has run yet
NoPass ==
    [ran |-> FALSE, before |-> {}, selected |-> {}, handled |-> <<>>, raised |-> FALSE]

\* a pass that takes the committed items away
download_and_extract_pdfs_DropsItems(committed, responses, raises) ==
    [committed EXCEPT !.items = {}]

\* _download_and_extract_pdfs(auth): the committed rows after the pass, where
\* responses gives what the download of each pending row meets and raises
\* says that the query, the directory, the cookies or the commit raised (the
\* pass rolls back and raises)
download_and_extract_pdfs(committed, responses, raises) ==
    LET pending == pending_pdfs(committed)
        sess == [committed EXCEPT !.attachments =
                    {IF a \in pending THEN download_pdf(a, responses[a.id]).att ELSE a :
                        a \in @}]
    IN  IF raises THEN rollback(committed, sess) ELSE commit(committed, sess)

\* sync_brightwheel up to the loop over student_entries
sync_brightwheel_begin ==
    /\ AtSource("brightwheel")
    /\ worker' = Called
    /\ \E student_entries \in StudentLists :
          sync' = [Idle EXCEPT !.pc = "bw_student", !.source = "brightwheel",
                               !.todo = student_entries,
                               !.since = last_sync_at_of(session.sync_state["brightwheel"]),
                               !.before = db]
    /\ sync_out' = NoOutcome
    /\ UNCHANGED <<db, session, clVars, sumVars, auxVars>>

\* one iteration of "for entry in student_entries"
sync_brightwheel_student ==
    /\ sync.pc = "bw_student"
    /\ sync.todo # <<>>
    /\ IF Head(sync.todo) = ""
       THEN /\ sync' = [sync EXCEPT !.todo = Tail(@), !.log = <<>>]
            /\ UNCHANGED session
       ELSE \E activities \in BwActivityLists, messages \in BwMessageLists :
               LET ra == StoreEach("bw_activity", session, activities,
                                   sync.total_new, <<>>)
                   rm == StoreEach("bw_message", ra.session, messages,
                                   ra.total_new, ra.log)
               IN  /\ session' = rm.session
                   /\ sync' = [sync EXCEPT !.todo = Tail(@),
                                           !.total_new = rm.total_new,
                                           !.log = rm.log]
    /\ UNCHANGED <<db, sync_out, worker, clVars, sumVars, auxVars>>

\* sync_brightwheel from "# Update sync state" on: the commit, then the PDF
\* pass in its own transaction
sync_brightwheel_finish ==
    /\ sync.pc = "bw_student"
    /\ sync.todo = <<>>
    /\ \E now \in Now :
          LET state == session.sync_state["brightwheel"]
              committed == commit(db, [session EXCEPT !.sync_state["brightwheel"] =
                                  Some(SyncState(Some(now), page_cursor_of(state)))])
          IN  \E responses \in [pending_ids(committed) -> SyncPdfResponses],
                 raises \in BOOLEAN :
                    /\ db' = download_and_extract_pdfs(committed, responses, raises)
                    /\ sync_out' = SyncOutcome("brightwheel", "ok", sync.total_new,
                                               sync.before, Some(now), None, FALSE)
    /\ session' = db'
    /\ sync' = Idle
    /\ worker' = Returned(worker, sync.source)
    /\ UNCHANGED <<clVars, sumVars, auxVars>>

\* sync_whatsapp up to the loop over the groups; with no group configured
\* it returns at once
sync_whatsapp_begin ==
    /\ AtSource("whatsapp")
    /\ \E groups \in GroupLists :
          IF groups = <<>>
          THEN /\ sync_out' = SyncOutcome("whatsapp", "ok", 0, db, None, None, TRUE)
               /\ worker' = Returned(Called, "whatsapp")
               /\ UNCHANGED sync
          ELSE /\ sync' = [Idle EXCEPT !.pc = "wa_group", !.source = "whatsapp",
                                       !.todo = groups,
                                       !.since = last_sync_at_of(session.sync_state["whatsapp"]),
                                       !.before = db]
               /\ worker' = Called
               /\ sync_out' = NoOutcome
    /\ UNCHANGED <<db, session, clVars, sumVars, auxVars>>

\* one iteration of "for group_name in groups"
sync_whatsapp_group ==
    /\ sync.pc = "wa_group"
    /\ sync.todo # <<>>
    /\ \E messages \in WaMessageLists :
          LET r == StoreEach("whatsapp", session, messages,
                             sync.total_new, <<>>)
          IN  /\ session' = r.session
              /\ sync' = [sync EXCEPT !.todo = Tail(@), !.total_new = r.total_new,
                                      !.log = r.log]
    /\ UNCHANGED <<db, sync_out, worker, clVars, sumVars, auxVars>>

\* sync_whatsapp from "# Update sync state" to the commit
sync_whatsapp_finish ==
    /\ sync.pc = "wa_group"
    /\ sync.todo = <<>>
    /\ \E now \in Now :
          LET state == session.sync_state["whatsapp"]
          IN  /\ db' = commit(db, [session EXCEPT !.sync_state["whatsapp"] =
                                  Some(SyncState(Some(now), page_cursor_of(state)))])
              /\ sync_out' = SyncOutcome("whatsapp", "ok", sync.total_new,
                                         sync.before, Some(now), None, FALSE)
    /\ session' = db'
    /\ sync' = Idle
    /\ worker' = Returned(worker, sync.source)
    /\ UNCHANGED <<clVars, sumVars, auxVars>>

SyncInit ==
    /\ db = EmptyDb
    /\ session = EmptyDb
    /\ sync = Idle
    /\ sync_out = NoOutcome
    /\ worker = NoWorker

SyncNext ==
    \/ \E sources \in SourceLists : SyncWorker_start(sources)
    \/ SyncWorker_finished
    \/ \E source \in Sources : sync_preamble_raises(source)
    \/ sync_raises
    \/ sync_gmail_begin
    \/ sync_gmail_page
    \/ sync_gmail_finish
    \/ sync_brightwheel_begin
    \/ sync_brightwheel_student
    \/ sync_brightwheel_finish
    \/ sync_whatsapp_begin
    \/ sync_whatsapp_group
    \/ sync_whatsapp_finish

----------------------------------------------------------------------------
(* The page loops of the adapters *)

\* max_pages of fetch_all_activities and fetch_all_messages
fetch_all_max_pages == 20

\* the loops: the while loop of sync_gmail over fetch_messages, and
\* fetch_all_activities and fetch_all_messages of BrightwheelService
Loops == {"gmail", "activities", "messages"}

\* instants of the feed's records; last_sync_at of a stored Sync State is 1
FeedInstants == {0, 1}
Watermarks == {None, Some(1)}

\* record.get("created_at") of a fetched record: missing, a text
\* parse_timestamp raises on, or an instant
Created == {None} \cup {Some([parses |-> FALSE, ts |-> 0])}
                  \cup {Some([parses |-> TRUE, ts |-> t]) : t \in FeedInstants}
FeedRecords == {[created |-> c] : c \in Created}

\* the records of one fetched page
FeedPages ==
    {<<>>} \cup {<<a>> : a \in FeedRecords}
           \cup {<<a, b>> : a \in FeedRecords, b \in FeedRecords}

\* a scan that takes a timestamp it cannot parse for an old one
is_older_Unparsed(record, since) ==
    /\ since # None
    /\ record.created # None
    /\ (record.created[1].parses => record.created[1].ts < since[1])

\* "if since and created: ts = parse_timestamp(created); if ts < since",
\* with the ValueError of parse_timestamp passed over
is_older(record, since) ==
    /\ since # None
    /\ record.created # None
    /\ record.created[1].parses
    /\ record.created[1].ts < since[1]

\* the index of the first record of the page the scan returns at, 0 if none
first_older(records, since) ==
    IF \E k \in 1..Len(records) : is_older(records[k], since)
    THEN CHOOSE k \in 1..Len(records) :
            /\ is_older(records[k], since)
            /\ \A j \in 1..(k - 1) : ~is_older(records[j], since)
    ELSE 0

\* the records of the page that all_activities.append / all_messages.append
\* took before the scan ended
appended_of(records, since) ==
    IF first_older(records, since) = 0 THEN records
    ELSE SubSeq(records, 1, first_older(records, since) - 1)

\* a loop that goes on whenever the page was full
fetch_all_continues_NoLimit(page, records, since, has_more) ==
    records # <<>> /\ first_older(records, since) = 0 /\ has_more

\* fetch_all_* runs its while loop once more after a fetch: the page was not
\* empty, no record of it was older than since, has_more was set, and page,
\* already incremented, is at most max_pages
fetch_all_continues(page, records, since, has_more) ==
    /\ records # <<>>
    /\ first_older(records, since) = 0
    /\ has_more
    /\ page <= fetch_all_max_pages

\* one fetched page: its records and whether it came with a continuation
\* (nextPageToken of Gmail, has_more of Brightwheel)
Page(records, more) == [records |-> records, more |-> more]

\* no page loop is running.  watermark is last_sync_at of the source's Sync
\* State, since what the adapter is given, fetches the page fetches made
NoLoop ==
    [pc |-> "idle", loop |-> "", watermark |-> None, since |-> None,
     pages_fetched |-> 0, page |-> 1, fetches |-> 0, last_page |-> Page(<<>>, FALSE),
     appended |-> <<>>]

\* the loop is entered.  sync_brightwheel passes since = state.last_sync_at
\* to fetch_all_activities and fetch_all_messages; sync_gmail reads
\* state.page_cursor only and fetch_messages has no since parameter
page_loop_begin(loop, watermark) ==
    /\ fetch.pc = "idle"
    /\ fetch' = [NoLoop EXCEPT !.pc = "loop", !.loop = loop, !.watermark = watermark,
                               !.since = IF loop = "gmail" THEN None ELSE watermark]
    /\ UNCHANGED <<clVars, syncVars, sumVars, ui, agg, extVars>>

\* one iteration of "while pages_fetched < max_pages" of sync_gmail, for
\* what it does to the loop
gmail_loop_fetch ==
    /\ fetch.pc = "loop"
    /\ fetch.loop = "gmail"
    /\ \E messages \in FeedPages, next_token \in TokenOpt :
          fetch' = [fetch EXCEPT
             !.pc = IF gmail_loop_continues(fetch.pages_fetched + 1, messages, next_token)
                    THEN "loop" ELSE "done",
             !.pages_fetched = IF messages = <<>> THEN @ ELSE @ + 1,
             !.fetches = @ + 1,
             !.last_page = Page(messages, next_token # None),
             !.appended = messages]
    /\ UNCHANGED <<clVars, syncVars, sumVars, ui, agg, extVars>>

\* one iteration of "while page <= max_pages" of fetch_all_activities or
\* fetch_all_messages
fetch_all_page ==
    /\ fetch.pc = "loop"
    /\ fetch.loop \in {"activities", "messages"}
    /\ \E records \in FeedPages, has_more \in BOOLEAN :
          fetch' = [fetch EXCEPT
             !.pc = IF fetch_all_continues(fetch.page + 1, records, fetch.since, has_more)
                    THEN "loop" ELSE "done",
             !.page = IF records # <<>> /\ first_older(records, fetch.since) = 0
                         /\ has_more
                      THEN @ + 1 ELSE @,
             !.fetches = @ + 1,
             !.last_page = Page(records, has_more),
             !.appended = appended_of(records, fetch.since)]
    /\ UNCHANGED <<clVars, syncVars, sumVars, ui, agg, extVars>>

\* the fetch raises (resp.raise_for_status(), execute()): the loop is left
\* by the exception
page_loop_raises ==
    /\ fetch.pc = "loop"
    /\ fetch' = [fetch EXCEPT !.pc = "done", !.fetches = @ + 1,
                              !.last_page = Page(<<>>, FALSE), !.appended = <<>>]
    /\ UNCHANGED <<clVars, syncVars, sumVars, ui, agg, extVars>>

\* the function returns to its caller
page_loop_return ==
    /\ fetch.pc = "done"
    /\ fetch' = NoLoop
    /\ UNCHANGED <<clVars, syncVars, sumVars, ui, agg, extVars>>

PagingInit == fetch = NoLoop

\* a step of a running loop
LoopStep == gmail_loop_fetch \/ fetch_all_page \/ page_loop_raises

PagingNext ==
    \/ \E loop \in Loops, watermark \in Watermarks : page_loop_begin(loop, watermark)
    \/ gmail_loop_fetch
    \/ fetch_all_page
    \/ page_loop_raises
    \/ page_loop_return

----------------------------------------------------------------------------
(* MainWindow: starting the workers *)

\* SyncWorker(sources) and SummaryWorker(force=force) objects; id tells the
\* objects apart
SyncThread(id, sources) == [id |-> id, sources |-> sources]
SummaryThread(id, force) == [id |-> id, force |-> force]

\* what a request to start a worker did: whether a worker of the kind was
\* running when it came, whether it started one, and whether it changed the
\* reference to or the set of the workers of the kind
Request(kind, was_running, started, altered) ==
    [kind |-> kind, was_running |-> was_running, started |-> started,
     altered |-> altered]

\* MainWindow.__init__: self._sync_worker = None; self._summary_worker = None.
\* sync_threads and summary_threads are the threads for which isRunning()
\* holds, finished_signals the finished_signal emissions of sync workers
\* whose slot has not run yet
NoThreads ==
    [sync_worker |-> None, summary_worker |-> None, sync_threads |-> {},
     summary_threads |-> {}, created |-> 0, finished_signals |-> 0,
     request |-> Request("none", FALSE, FALSE, FALSE)]

\* a guard that never finds a running worker
is_running_Never(worker_ref, threads) == FALSE

\* self._sync_worker and self._sync_worker.isRunning()
is_running(worker_ref, threads) == worker_ref # None /\ worker_ref[1] \in threads

\* MainWindow._run_sync(sources) on the window state u
run_sync_of(u, sources) ==
    IF is_running(u.sync_worker, u.sync_threads)
    THEN [u EXCEPT !.request = Request("sync", u.sync_threads # {}, FALSE, FALSE)]
    ELSE LET thread == SyncThread(u.created + 1, sources)
         IN  [u EXCEPT !.sync_worker = Some(thread),
                       !.sync_threads = @ \cup {thread},
                       !.created = @ + 1,
                       !.request = Request("sync", u.sync_threads # {}, TRUE, TRUE)]

\* MainWindow._run_summary(force) on the window state u
run_summary_of(u, force) ==
    IF is_running(u.summary_worker, u.summary_threads)
    THEN [u EXCEPT !.request = Request("summary", u.summary_threads # {}, FALSE, FALSE)]
    ELSE LET thread == SummaryThread(u.created + 1, force)
         IN  [u EXCEPT !.summary_worker = Some(thread),
                       !.summary_threads = @ \cup {thread},
                       !.created = @ + 1,
                       !.request = Request("summary", u.summary_threads # {}, TRUE, TRUE)]

\* _sync_all and _sync_source: a menu action or a toolbar button
run_sync(sources) ==
    /\ ui.created < MaxWorkers
    /\ ui' = run_sync_of(ui, sources)
    /\ UNCHANGED <<clVars, syncVars, sumVars, fetch, agg, extVars>>

\* regenerate_requested of the dashboard: _run_summary(force=True)
regenerate_requested ==
    /\ ui.created < MaxWorkers
    /\ ui' = run_summary_of(ui, TRUE)
    /\ UNCHANGED <<clVars, syncVars, sumVars, fetch, agg, extVars>>

\* SyncWorker.run returns after emitting finished_signal or error_signal
sync_thread_exits(thread, signal) ==
    /\ thread \in ui.sync_threads
    /\ ui' = [ui EXCEPT !.sync_threads = @ \ {thread},
                        !.finished_signals = IF signal = "finished" THEN @ + 1 ELSE @]
    /\ UNCHANGED <<clVars, syncVars, sumVars, fetch, agg, extVars>>

\* the slot _on_sync_finished: it ends with self._run_summary()
on_sync_finished ==
    /\ ui.finished_signals > 0
    /\ ui.created < MaxWorkers
    /\ ui' = run_summary_of([ui EXCEPT !.finished_signals = @ - 1], FALSE)
    /\ UNCHANGED <<clVars, syncVars, sumVars, fetch, agg, extVars>>

\* SummaryWorker.run returns
summary_thread_exits(thread) ==
    /\ thread \in ui.summary_threads
    /\ ui' = [ui EXCEPT !.summary_threads = @ \ {thread}]
    /\ UNCHANGED <<clVars, syncVars, sumVars, fetch, agg, extVars>>

UiInit == ui = NoThreads

UiNext ==
    \/ \E sources \in SourceLists : run_sync(sources)
    \/ regenerate_requested
    \/ \E thread \in ui.sync_threads, signal \in {"finished", "error"} :
          sync_thread_exits(thread, signal)
    \/ on_sync_finished
    \/ \E thread \in ui.summary_threads : summary_thread_exits(thread)

----------------------------------------------------------------------------
(* SummaryService *)

\* the dates generate_rolling_summaries visits: today - timedelta(days=i)
\* for i in range(days), today first
WindowDates == <<"tue", "mon">>

\* a committed sync pass that fetched one record: the record goes through
\* its writer and the pass commits (the store the summarizer reads from)
SyncFeed ==
    {<<"whatsapp", r>> : r \in WaMessages}
    \cup {<<"gmail", r>> : r \in {m \in GmailMessages : m.payload}}
    \cup {<<"bw_activity", r>> : r \in {a \in BwActivities : a.object_id # ""}}

\* the words of an LLM response text: braces and brackets, free prose, and
\* "members" standing for the members of a well-formed summary object
ContentTokens == {"members"}

\* the summary object {"key_dates": [...], "action_items": [...],
\* "overview": {...}} a members token stands for
Content(token) ==
    [key_dates |-> <<"Pa">>, deadlines |-> <<"pay2">>, curriculum_updates |-> <<>>,
     action_items |-> <<"Pay1">>, overview |-> <<>>]

\* response.content[0].text of the responses the API can return
ResponseTexts ==
    { <<"{", "members", "}">>,
      <<"prose", "{", "members", "}", "prose">>,
      <<"prose">>,
      <<"{", "prose", "}">>,
      <<"{", "members", "}", "prose", "{", "members", "}">>,
      <<"[", "]">> }

\* json.loads accepts the text and returns a dict
IsJsonObject(text) ==
    \/ text = <<"{", "}">>
    \/ Len(text) = 3 /\ text[1] = "{" /\ text[2] \in ContentTokens /\ text[3] = "}"

\* json.loads accepts the text and returns a list
IsJsonArray(text) == text = <<"[", "]">>

\* the dict json.loads returns for an object text, read through
\* parsed.get(key, default)
ObjectOf(text) ==
    IF Len(text) = 3 THEN Content(text[2])
    ELSE [key_dates |-> <<>>, deadlines |-> <<>>, curriculum_updates |-> <<>>,
          action_items |-> <<>>, overview |-> <<>>]

\* re.search(r'\{.*\}', response_text, re.DOTALL): the span from the first
\* "{" to the last "}" after it, or None
regex_search(text) ==
    LET opens == {i \in 1..Len(text) : text[i] = "{"}
        closes == {j \in 1..Len(text) : text[j] = "}"}
    IN  IF opens = {} THEN None
        ELSE LET i == CHOOSE x \in opens : \A y \in opens : x <= y
                 after == {j \in closes : j > i}
             IN  IF after = {} THEN None
                 ELSE Some(SubSeq(text, i, Max(after)))

\* response_text[:500]
Truncated(text) == SubSeq(text, 1, IF Len(text) < 500 THEN Len(text) ELSE 500)

\* the outcome of "# Parse response" and the parsed.get calls after it:
\* the fields to store, or an exception
Parsed(raised, fields) == [raised |-> raised, fields |-> fields]

NoFields ==
    [key_dates |-> <<>>, deadlines |-> <<>>, curriculum_updates |-> <<>>,
     action_items |-> <<>>, overview |-> <<>>]

parse_response(response_text) ==
    IF IsJsonObject(response_text) THEN Parsed(FALSE, ObjectOf(response_text))
    ELSE IF IsJsonArray(response_text) THEN Parsed(TRUE, NoFields)
    ELSE LET match == regex_search(response_text)
         IN  IF match # None
             THEN IF IsJsonObject(match[1]) THEN Parsed(FALSE, ObjectOf(match[1]))
                  ELSE Parsed(TRUE, NoFields)
             ELSE Parsed(FALSE, [key_dates |-> <<>>, deadlines |-> <<>>,
                                 curriculum_updates |-> <<>>, action_items |-> <<>>,
                                 overview |-> Truncated(response_text)])

\* rows of daily_summaries
DailySummary(id, date, fields, source_item_ids, generated_at) ==
    [id |-> id, date |-> date, key_dates |-> fields.key_dates,
     deadlines |-> fields.deadlines,
     curriculum_updates |-> fields.curriculum_updates,
     action_items |-> fields.action_items, raw_summary |-> fields.overview,
     source_item_ids |-> source_item_ids, generated_at |-> generated_at]

\* an items query that sees the rows a running sync pass has flushed and not
\* committed
current_item_ids_Uncommitted(items, date) ==
    SortedSeq({i.id : i \in {j \in session.items : j.timestamp = date}})

\* the items query of _generate_day_summary and sorted([item.id ...])
items_of_day(items, date) == {i \in items : i.timestamp = date}
current_item_ids(items, date) == SortedSeq({i.id : i \in items_of_day(items, date)})

\* session.query(DailySummary).filter_by(date=date_str).first()
existing_summary(rows, date) ==
    IF \E r \in rows : r.date = date
    THEN Some(CHOOSE r \in rows : r.date = date)
    ELSE None

\* a check that never takes the day for empty
no_items_Never(ids) == FALSE

\* if not items: return
no_items(ids) == ids = <<>>

\* an up-to-date check that never skips
is_up_to_date_Never(existing, force, ids) == FALSE

\* an up-to-date check that does not look at force
is_up_to_date_IgnoresForce(existing, force, ids) ==
    existing # None /\ existing[1].source_item_ids = ids

\* an up-to-date check that takes any stored row of the day for current
is_up_to_date_AnyRow(existing, force, ids) == existing # None /\ ~force

\* existing and not force and existing.source_item_ids == current_ids_json
is_up_to_date(existing, force, ids) ==
    existing # None /\ ~force /\ existing[1].source_item_ids = ids

\* a store step that inserts a new row whether or not the day has one
upsert_summary_AlwaysInserts(rows, existing, date, fields, ids, now) ==
    rows \cup {DailySummary(NextRowId(rows), date, fields, ids, now)}

\* "# Store or update summary"
upsert_summary(rows, existing, date, fields, ids, now) ==
    IF existing # None
    THEN (rows \ {existing[1]})
         \cup {DailySummary(existing[1].id, date, fields, ids, now)}
    ELSE rows \cup {DailySummary(NextRowId(rows), date, fields, ids, now)}

\* a loop that commits after every day
committed_in_loop_EachDay(committed, sess) == sess

\* the committed daily_summaries rows while the loop over the days runs: the
\* only commit comes after the loop
committed_in_loop(committed, sess) == committed

\* str.strip(): the text without its leading and trailing whitespace
RECURSIVE lstrip(_)
lstrip(s) == IF s # <<>> /\ Head(s) = " " THEN lstrip(Tail(s)) ELSE s

RECURSIVE rstrip(_)
rstrip(s) ==
    IF s # <<>> /\ s[Len(s)] = " " THEN rstrip(SubSeq(s, 1, Len(s) - 1)) ELSE s

strip(s) == rstrip(lstrip(s))

\* a normalisation that keeps the surrounding whitespace
normalized_NoStrip(text) == lower(Chars(text))

\* item.strip().lower() of get_aggregated_summary
normalized(text) == lower(strip(Chars(text)))

\* the inner loop of get_aggregated_summary over one summary's list
RECURSIVE AppendUnseen(_, _)
AppendUnseen(aggregated, items) ==
    IF items = <<>> THEN aggregated
    ELSE IF \E k \in 1..Len(aggregated) : normalized(aggregated[k]) = normalized(Head(items))
    THEN AppendUnseen(aggregated, Tail(items))
    ELSE AppendUnseen(Append(aggregated, Head(items)), Tail(items))

\* the list of one summary row for a category (the *_list properties)
category_list(row, category) ==
    CASE category = "key_dates" -> row.key_dates
      [] category = "deadlines" -> row.deadlines
      [] category = "curriculum_updates" -> row.curriculum_updates
      [] category = "action_items" -> row.action_items

\* get_aggregated_summary(days)[category]: the summaries of the window, most
\* recent date first, their items deduplicated
RECURSIVE Aggregate(_, _, _, _)
Aggregate(rows, category, dates, aggregated) ==
    IF dates = <<>> THEN aggregated
    ELSE LET s == existing_summary(rows, Head(dates))
         IN  IF s = None THEN Aggregate(rows, category, Tail(dates), aggregated)
             ELSE Aggregate(rows, category, Tail(dates),
                            AppendUnseen(aggregated, category_list(s[1], category)))

\* an aggregation that returns no entry
get_aggregated_summary_Empty(rows, category) == <<>>

get_aggregated_summary(rows, category) == Aggregate(rows, category, WindowDates, <<>>)

\* the keys of the dict get_aggregated_summary returns
AggregatedCategories == {"key_dates", "deadlines", "curriculum_updates", "action_items"}

\* the whole dict get_aggregated_summary returns
aggregated_of(rows) == [c \in AggregatedCategories |-> get_aggregated_summary(rows, c)]

\* what one day of a run did: the ids it read, the id of the row it found,
\* whether that row's source_item_ids equalled them, and whether it called
\* the LLM and wrote the day's row
DayEntry(date, ids, existing, called) ==
    [date |-> date, ids |-> ids,
     existing_id |-> IF existing = None THEN None ELSE Some(existing[1].id),
     uptodate |-> existing # None /\ existing[1].source_item_ids = ids,
     called |-> called]

\* the part of a run's record kept for the run after it
EntryOfPrevious(e) ==
    [date |-> e.date, ids |-> e.ids, uptodate |-> e.uptodate, called |-> e.called]

NoPrevious == [status |-> "none", force |-> FALSE, log |-> <<>>]

\* no generate_rolling_summaries call is running
SumIdle ==
    [pc |-> "idle", force |-> FALSE, todo |-> <<>>, rows |-> {}, log |-> <<>>,
     now |-> 0, before |-> {}, previous |-> NoPrevious]

\* what the caller of generate_rolling_summaries observes, with the record
\* of the call: a normal return or an exception, the days it handled, the
\* dates whose committed row differs from the one before the call, and the
\* day and response text the exception was raised on
SumOutcome(status, force, log, changed, now, raised_on, previous, reconciled) ==
    [status |-> status, force |-> force, log |-> log, changed |-> changed,
     now |-> now, raised_on |-> raised_on, previous |-> previous,
     reconciled |-> reconciled]

NoRun == SumOutcome("none", FALSE, <<>>, {}, 0, None, NoPrevious, "none")

\* the dates whose committed Daily Summary row is not the one in before
ChangedDates(before, after) ==
    {WindowDates[k] : k \in {j \in 1..Len(WindowDates) :
        existing_summary(after, WindowDates[j]) # existing_summary(before, WindowDates[j])}}

\* a sync pass that runs beside the summarizer and commits one new record
sync_pass_commits ==
    /\ sync.pc = "idle"
    /\ \E f \in SyncFeed :
          LET r == store_record(f[1], db, f[2])
          IN  /\ r.ret = 1
              /\ db' = commit(db, r.session)
    /\ session' = db'
    /\ UNCHANGED <<sync, sync_out, worker, clVars, summaries, sum, sum_out, sum_clock,
                   auxVars>>

\* generate_rolling_summaries(force=force) up to the loop over the days
generate_rolling_summaries_begin(force) ==
    /\ sum.pc = "idle"
    /\ sum_clock < MaxRuns
    /\ sum_clock' = sum_clock + 1
    /\ sum' = [SumIdle EXCEPT !.pc = "day", !.force = force, !.todo = WindowDates,
                              !.rows = summaries, !.now = sum_clock + 1,
                              !.before = summaries,
                              !.previous = [status |-> sum_out.status,
                                            force |-> sum_out.force,
                                            log |-> [k \in DOMAIN sum_out.log |->
                                                       EntryOfPrevious(sum_out.log[k])]]]
    /\ sum_out' = NoRun
    /\ UNCHANGED <<summaries, syncVars, clVars, auxVars>>

\* except Exception: session.rollback(); raise
SumRaise(date, response) ==
    /\ summaries' = rollback(summaries, sum.rows)
    /\ sum_out' = SumOutcome("error", sum.force, sum.log,
                             ChangedDates(sum.before, summaries'), sum.now,
                             Some([date |-> date, response |-> response]),
                             sum.previous, "none")
    /\ sum' = SumIdle

\* _generate_day_summary(session, target_date, force) for the next date
generate_day_summary ==
    /\ sum.pc = "day"
    /\ sum.todo # <<>>
    /\ LET date == Head(sum.todo)
           ids == current_item_ids(db.items, date)
           existing == existing_summary(sum.rows, date)
           skipped == [sum EXCEPT !.todo = Tail(@),
                                  !.log = Append(@, DayEntry(date, ids, existing,
                                                             FALSE))]
       IN  IF no_items(ids) \/ is_up_to_date(existing, sum.force, ids)
           THEN /\ sum' = skipped
                /\ UNCHANGED <<summaries, sum_out>>
           ELSE \E response \in {None} \cup {Some(t) : t \in ResponseTexts} :
                   IF response = None THEN SumRaise(Some(date), None)
                   ELSE LET p == parse_response(response[1])
                        IN  IF p.raised THEN SumRaise(Some(date), response)
                            ELSE LET rows == upsert_summary(sum.rows, existing, date,
                                                            p.fields, ids, sum.now)
                                 IN  /\ sum' = [sum EXCEPT
                                          !.todo = Tail(@), !.rows = rows,
                                          !.log = Append(@, DayEntry(date, ids, existing,
                                                                     TRUE))]
                                     /\ summaries' = committed_in_loop(summaries, rows)
                                     /\ UNCHANGED sum_out
    /\ UNCHANGED <<sum_clock, syncVars, clVars, auxVars>>

\* an exception at the point the call has reached other than from the LLM
\* call and the parsing: a query, the flush or the commit
generate_rolling_summaries_raises ==
    /\ sum.pc = "day"
    /\ SumRaise(None, None)
    /\ UNCHANGED <<sum_clock, syncVars, clVars, auxVars>>

\* the reconciliation of one category fits the row ids of the model
FitsMaxId(rows, category, new_texts) ==
    NextRowId(rows)
      + Len(AddedIndices(new_texts, Matching(Existing(rows, category), new_texts))) - 1
        <= MaxId

\* checklist_svc.sync_items_from_summary(category, items) on the table rows
ReconciledBy(rows, category, new_texts) ==
    Reconciled(rows, category, new_texts, Matching(Existing(rows, category), new_texts))

\* the record of that call
LastReconciliation(rows, category, new_texts, previous) ==
    [op |-> "sync_items_from_summary", category |-> category,
     new_texts |-> new_texts, before |-> Existing(rows, category),
     matched |-> Matching(Existing(rows, category), new_texts),
     repeated |-> IsRepeat(previous, category, new_texts)]

\* _sync_checklist_from_summaries inside its try/except.  reconciled names the
\* categories reconciled before an exception ended it ("both" when none did)
\* and point where the exception was raised: in get_aggregated_summary
\* ("aggregate", before any reconciliation) or inside the reconciliation of
\* the next category
sync_checklist_from_summaries(rows, reconciled, point) ==
    LET actions == get_aggregated_summary(rows, "action_items")
        dates == get_aggregated_summary(rows, "key_dates")
        first == ReconciledBy(checklist, "action_items", actions)
    IN  CASE reconciled = "none" /\ point = "aggregate" -> UNCHANGED <<checklist, last>>
          [] reconciled = "none" /\ point # "aggregate" ->
                /\ checklist' = sync_items_from_summary_raises(checklist, "action_items",
                                                               actions, point)
                /\ last' = LastFailure(checklist, "action_items", actions, point)
          [] reconciled = "action_items" ->
                /\ FitsMaxId(checklist, "action_items", actions)
                /\ checklist' = sync_items_from_summary_raises(first, "key_dates", dates,
                                                               point)
                /\ last' = LastFailure(first, "key_dates", dates, point)
          [] reconciled = "both" ->
                /\ FitsMaxId(checklist, "action_items", actions)
                /\ FitsMaxId(first, "key_dates", dates)
                /\ checklist' = ReconciledBy(first, "key_dates", dates)
                /\ last' = LastReconciliation(first, "key_dates", dates,
                              LastReconciliation(checklist, "action_items", actions, last))

\* the outcomes of the reconciliation step: the categories reconciled and the
\* point of the exception, if any
ReconciliationOutcomes ==
    {<<"both", "none">>}
    \cup {<<"none", point>> : point \in FailurePoints \cup {"aggregate"}}
    \cup {<<"action_items", point>> : point \in FailurePoints}

\* generate_rolling_summaries after the loop: the commit, then the checklist
\* reconciliation
generate_rolling_summaries_commit ==
    /\ sum.pc = "day"
    /\ sum.todo = <<>>
    /\ summaries' = commit(summaries, sum.rows)
    /\ sum' = SumIdle
    /\ \E outcome \in ReconciliationOutcomes :
          /\ sync_checklist_from_summaries(summaries', outcome[1], outcome[2])
          /\ sum_out' = SumOutcome("ok", sum.force, sum.log,
                                   ChangedDates(sum.before, summaries'), sum.now, None,
                                   sum.previous, outcome[1])
    /\ UNCHANGED <<sum_clock, ratios, syncVars, auxVars>>

SumInit ==
    /\ summaries = {}
    /\ sum = SumIdle
    /\ sum_out = NoRun
    /\ sum_clock = 0

----------------------------------------------------------------------------
(* The state outside the services' own, before anything ran *)

\* no whole sync call has been made yet
NoSync ==
    [n |-> 0, source |-> "", status |-> "none", total_new |-> 0, before |-> EmptyDb,
     now |-> None, fed |-> <<>>, unparsed |-> None, pdf |-> "none"]

\* no response text has been turned into a row yet
NoParse == [done |-> FALSE, text |-> <<>>, raised |-> FALSE, row |-> None]

\* no worker thread has been started yet
NoThread ==
    [n |-> 0, kind |-> "none", pc |-> "idle", todo |-> <<>>, raised |-> FALSE,
     signals |-> <<>>]

\* no mail pass has run against the paged list: no Sync State row, no
\* cursor kept by a pass
NoCursor ==
    [pc |-> "idle", passes |-> 0, pages |-> 1, empty |-> {}, state |-> None,
     kept |-> None, page_token |-> None, next_token |-> None,
     pages_fetched |-> 0, used |-> <<>>, got |-> <<>>]

\* no fetch_all_* call has been made
NoScan ==
    [pc |-> "idle", loop |-> "", feed |-> <<>>, last_more |-> FALSE, since |-> None,
     page |-> 1, fetched |-> 0, all |-> <<>>]

\* no reconciliation run is in flight and none has been made
NoRecon ==
    [pc |-> "idle", runs |-> 0, category |-> "", new_texts |-> <<>>,
     existing |-> {}, checked |-> {}]

\* no childcare pass has run: the feed is empty, nothing is stored and there
\* is no Sync State row
NoIncr ==
    [pc |-> "idle", clock |-> 0, source |-> <<>>, stored |-> {}, last_sync_at |-> None,
     since |-> None, activities |-> <<>>]

\* the window before any request: no worker, no signal waiting for its
\* slot, nothing committed
NoChain ==
    [u |-> NoThreads, todo |-> <<>>, attempted |-> <<>>, committed |-> <<>>,
     failed_at |-> None, status |-> "none", emitted |-> "none", rows |-> {},
     queue |-> <<>>, read |-> FALSE, unread |-> FALSE, owed |-> FALSE,
     handled |-> [signal |-> "none", started |-> FALSE]]

ExtInit ==
    /\ pdf = NoPass
    /\ call = NoSync
    /\ parse = NoParse
    /\ run = NoThread
    /\ cursor = NoCursor
    /\ scan = NoScan
    /\ recon = NoRecon
    /\ incr = NoIncr
    /\ chain = NoChain

----------------------------------------------------------------------------
(* get_aggregated_summary on the tables it can find *)

\* entry texts: "Pay1" and "pay1" differ in case only, "pay1" and " pay1 "
\* in surrounding whitespace only
EntryTexts == {"Pay1", "pay1", " pay1 ", "Pa"}

\* the lists of one category of one row
EntryLists ==
    {<<>>} \cup {<<a>> : a \in EntryTexts}
           \cup {<<a, b>> : a \in EntryTexts, b \in EntryTexts}

\* the lists of the two categories that follow in these tables
OtherLists == {<<>>, <<"Pa">>, <<"pay1", "Pay1">>, <<" pay1 ", "Pa">>}

\* the row of one date whose lists are x and y
RowOf(id, date, x, y) ==
    DailySummary(id, date,
                 [key_dates |-> x[1], deadlines |-> y, curriculum_updates |-> x[2],
                  action_items |-> x[1], overview |-> <<>>],
                 <<>>, 0)

\* the rows of one date: none, or one row
RowsOf(id, date) ==
    {{}} \cup {{RowOf(id, date, <<x1, x2>>, y)} :
                 x1 \in EntryLists, x2 \in {<<>>, <<"Pay1">>}, y \in OtherLists}

\* daily_summaries tables over the window
SummaryTables == {a \cup b : a \in RowsOf(1, "tue"), b \in RowsOf(2, "mon")}

NoCall == [called |-> FALSE, result |-> [c \in AggregatedCategories |-> <<>>]]

\* a caller reads get_aggregated_summary()
get_aggregated_summary_call ==
    /\ ~agg.called
    /\ agg' = [called |-> TRUE, result |-> aggregated_of(summaries)]
    /\ UNCHANGED <<clVars, syncVars, sumVars, fetch, ui, extVars>>

AggInit ==
    /\ ClInit /\ SyncInit /\ PagingInit /\ UiInit
    /\ summaries \in SummaryTables
    /\ sum = SumIdle
    /\ sum_out = NoRun
    /\ sum_clock = 0
    /\ agg = NoCall
    /\ ExtInit

AggNext == get_aggregated_summary_call

SumNext ==
    \/ sync_pass_commits
    \/ \E force \in BOOLEAN : generate_rolling_summaries_begin(force)
    \/ generate_day_summary
    \/ generate_rolling_summaries_raises
    \/ generate_rolling_summaries_commit

----------------------------------------------------------------------------
(* The PDF post-processor on the rows sync passes leave *)

\* the mime types of the attachments of one Brightwheel item
MediaLists ==
    {<<>>, <<"application/pdf">>, <<"image/jpeg", "application/pdf">>}

\* the committed rows after sync passes stored a Gmail message with a PDF
\* attachment and two Brightwheel records with the attachments ms1 and ms2
DbOf(ms1, ms2) ==
    LET a == add_item(EmptyDb, "gmail", "gmail_m1", "mon", <<"application/pdf">>)
        b == add_item(a, "brightwheel", "bw_act_a1", "mon", ms1)
        c == add_item(b, "brightwheel", "bw_msg_g1", "tue", ms2)
    IN  [c EXCEPT !.sync_state["gmail"] = Some(SyncState(Some(0), None)),
                  !.sync_state["brightwheel"] = Some(SyncState(Some(0), None))]

PdfDbs == {DbOf(ms1, ms2) : ms1 \in MediaLists, ms2 \in {<<>>, <<"application/pdf">>}}

\* the row of table attachments with the id
AttachmentOf(rows, id) == CHOOSE a \in rows : a.id = id

\* "try: self._download_and_extract_pdfs(auth) except Exception:
\* logger.warning(...)": one pass, with what it met for every row it selected
pdf_pass ==
    /\ \E responses \in [pending_ids(db) -> PdfResponses], raises \in BOOLEAN :
          /\ db' = download_and_extract_pdfs(db, responses, raises)
          /\ pdf' = [ran |-> TRUE, before |-> db.attachments,
                     selected |-> pending_ids(db),
                     handled |-> [id \in pending_ids(db) |->
                         [resp |-> responses[id],
                          did |-> download_pdf(AttachmentOf(db.attachments, id),
                                               responses[id])]],
                     raised |-> raises]
    /\ session' = db'
    /\ UNCHANGED <<sync, sync_out, worker, clVars, sumVars, fetch, ui, agg, call, parse, run, seqVars>>

PdfInit ==
    /\ ClInit /\ SumInit /\ PagingInit /\ UiInit
    /\ db \in PdfDbs
    /\ session = db
    /\ sync = Idle
    /\ sync_out = NoOutcome
    /\ worker = NoWorker
    /\ agg = NoCall
    /\ ExtInit

PdfNext == pdf_pass

----------------------------------------------------------------------------
(* Whole sync calls on feeds of several records *)

\* a Gmail message resource that has its payload
Message(id) ==
    [id |-> id, payload |-> TRUE, internalDate |-> "mon", attachments |-> <<>>]

\* a message resource without the "payload" key: parse_message raises
\* KeyError on it
NoPayload ==
    [id |-> "m5", payload |-> FALSE, internalDate |-> "mon", attachments |-> <<>>]

\* the pages fetch_messages returns: up to two records, and pages of four
GmailFeedPages ==
    LET short == {Message("m1"), Message("m2"), NoPayload}
    IN  {<<>>} \cup {<<a>> : a \in short} \cup {<<a, b>> : a \in short, b \in short}
        \cup { <<Message("m1"), Message("m2"), Message("m3"), Message("m4")>>,
               <<Message("m2"), Message("m3"), Message("m1"), Message("m4")>>,
               <<Message("m2"), Message("m3"), Message("m4"), Message("m2")>>,
               <<Message("m2"), NoPayload, Message("m3"), Message("m4")>>,
               <<Message("m2"), Message("m3"), Message("m4"), NoPayload>> }

\* what one fetch_messages call returns
Fetched(messages, next_token) == [messages |-> messages, next_token |-> next_token]

\* what the successive fetch_messages calls of one sync_gmail call return:
\* one page without continuation, or a page with one and the page after it
GmailFeeds ==
    {<<Fetched(p, None)>> : p \in GmailFeedPages}
    \cup {<<Fetched(p, Some("t1")), Fetched(q, None)>> :
             p \in {<<Message("m1")>>, <<NoPayload>>},
             q \in {<<>>, <<Message("m1")>>, <<Message("m2")>>}}

\* the records a call was fed: source_id and whether the record can be
\* normalized
FedGmail(messages) ==
    [k \in 1..Len(messages) |->
        [source_id |-> "gmail_" \o messages[k].id, parsable |-> messages[k].payload]]

FedActivities(activities) ==
    [k \in 1..Len(activities) |->
        [source_id |-> parse_activity(activities[k]).source_id, parsable |-> TRUE]]

FedMessages(messages) ==
    [k \in 1..Len(messages) |->
        [source_id |-> parse_message(messages[k]).source_id, parsable |-> TRUE]]

\* "while pages_fetched < max_pages" of sync_gmail to its end: the session,
\* the count, the last continuation, and the record an exception was raised on
RECURSIVE sync_gmail_while(_, _, _, _, _)
sync_gmail_while(sess, fetches, pages_fetched, total_new, fed) ==
    LET messages == Head(fetches).messages
        next_token == Head(fetches).next_token
        r == StoreEach("gmail", sess, messages, total_new, <<>>)
    IN  IF messages = <<>>
        THEN [session |-> sess, total_new |-> total_new, next_token |-> next_token,
              raised |-> FALSE, unparsed |-> None, fed |-> fed]
        ELSE IF r.raised
        THEN [session |-> r.session, total_new |-> r.total_new, next_token |-> next_token,
              raised |-> TRUE, unparsed |-> r.unparsed, fed |-> fed \o FedGmail(messages)]
        ELSE IF gmail_loop_continues(pages_fetched + 1, messages, next_token)
        THEN sync_gmail_while(r.session, Tail(fetches), pages_fetched + 1, r.total_new,
                              fed \o FedGmail(messages))
        ELSE [session |-> r.session, total_new |-> r.total_new, next_token |-> next_token,
              raised |-> FALSE, unparsed |-> None, fed |-> fed \o FedGmail(messages)]

\* sync_gmail() from its call to its return or exception
sync_gmail_call ==
    /\ call.n < MaxCalls
    /\ \E fetches \in GmailFeeds, now \in Now :
          LET state == db.sync_state["gmail"]
              r == sync_gmail_while(db, fetches, 0, 0, <<>>)
          IN  IF r.raised
              THEN /\ db' = rollback(db, r.session)
                   /\ call' = [n |-> call.n + 1, source |-> "gmail", status |-> "error",
                               total_new |-> r.total_new, before |-> db, now |-> None,
                               fed |-> r.fed, unparsed |-> r.unparsed, pdf |-> "none"]
              ELSE /\ db' = commit(db, [r.session EXCEPT !.sync_state["gmail"] =
                                          Some(SyncState(Some(now), r.next_token))])
                   /\ call' = [n |-> call.n + 1, source |-> "gmail", status |-> "ok",
                               total_new |-> r.total_new, before |-> db,
                               now |-> Some(now), fed |-> r.fed, unparsed |-> None,
                               pdf |-> "none"]
    /\ session' = db'
    /\ UNCHANGED <<sync, sync_out, worker, clVars, sumVars, fetch, ui, agg, pdf, parse, run, seqVars>>

\* sync_brightwheel() for one student from its call to its return or
\* exception: raised says that a fetch, a write or the commit raised
sync_brightwheel_call ==
    /\ call.n < MaxCalls
    /\ \E activities \in BwActivityLists, messages \in BwMessageLists, now \in Now,
          raised \in BOOLEAN :
          LET state == db.sync_state["brightwheel"]
              ra == StoreEach("bw_activity", db, activities, 0, <<>>)
              rm == StoreEach("bw_message", ra.session, messages, ra.total_new, <<>>)
              committed == commit(db, [rm.session EXCEPT !.sync_state["brightwheel"] =
                                  Some(SyncState(Some(now), page_cursor_of(state)))])
              fed == FedActivities(activities) \o FedMessages(messages)
          IN  IF raised
              THEN /\ db' = rollback(db, rm.session)
                   /\ call' = [n |-> call.n + 1, source |-> "brightwheel",
                               status |-> "error", total_new |-> rm.total_new,
                               before |-> db, now |-> None, fed |-> fed,
                               unparsed |-> None, pdf |-> "none"]
              ELSE \E responses \in [pending_ids(committed) -> SyncPdfResponses],
                      pdf_raises \in BOOLEAN :
                      /\ db' = download_and_extract_pdfs(committed, responses, pdf_raises)
                      /\ call' = [n |-> call.n + 1, source |-> "brightwheel",
                                  status |-> "ok", total_new |-> rm.total_new,
                                  before |-> db, now |-> Some(now), fed |-> fed,
                                  unparsed |-> None,
                                  pdf |-> IF pdf_raises THEN "raised" ELSE "ok"]
    /\ session' = db'
    /\ UNCHANGED <<sync, sync_out, worker, clVars, sumVars, fetch, ui, agg, pdf, parse, run, seqVars>>

CallNext ==
    \/ sync_gmail_call
    \/ sync_brightwheel_call

----------------------------------------------------------------------------
(* _generate_day_summary on the response texts the API can return *)

\* the words a short response text is made of
Words == {"{", "}", "[", "]", "members", "prose"}

\* a text of n characters without a brace
Prose(n) == [k \in 1..n |-> "prose"]

\* the response texts: every text of up to three words, the texts of
\* ResponseTexts, and brace-free texts of 500 and of 501 characters
ParseTexts ==
    UNION {[1..n -> Words] : n \in 0..3} \cup ResponseTexts \cup {Prose(500), Prose(501)}

\* the day the summary is made for, and the ids of its items
ParseDate == "mon"
ParseIds == <<1>>

\* _generate_day_summary from "# Parse response" to the stored row, and the
\* commit of generate_rolling_summaries after it; an exception leaves the
\* table as it was
generate_day_summary_of_response ==
    /\ ~parse.done
    /\ \E text \in ParseTexts :
          LET p == parse_response(text)
              rows == upsert_summary(summaries, existing_summary(summaries, ParseDate),
                                     ParseDate, p.fields, ParseIds, 1)
          IN  IF p.raised
              THEN /\ summaries' = rollback(summaries, summaries)
                   /\ parse' = [done |-> TRUE, text |-> text, raised |-> TRUE,
                                row |-> None]
              ELSE /\ summaries' = commit(summaries, rows)
                   /\ parse' = [done |-> TRUE, text |-> text, raised |-> FALSE,
                                row |-> existing_summary(rows, ParseDate)]
    /\ UNCHANGED <<clVars, syncVars, sum, sum_out, sum_clock, fetch, ui, agg, pdf, call,
                   run, seqVars>>

ParseNext == generate_day_summary_of_response

----------------------------------------------------------------------------
(* SyncWorker.run and SummaryWorker.run *)

\* str(e) of the exceptions a run can meet
ErrorMessages == {"", "boom"}

\* an emission of one of the three signals of a worker, with its arguments
Signal(signal, args) == [signal |-> signal, args |-> args]

\* _on_progress(msg), k times: self.progress_signal.emit(msg)
RECURSIVE on_progress(_, _)
on_progress(signals, k) ==
    IF k = 0 THEN signals
    ELSE on_progress(Append(signals, Signal("progress_signal", <<"msg">>)), k - 1)

\* an except branch that swallows the exception
error_signal_emit_Nothing(signals, e) == signals

\* except Exception as e: self.error_signal.emit(str(e))
error_signal_emit(signals, e) == Append(signals, Signal("error_signal", <<e>>))

\* self.finished_signal.emit()
finished_signal_emit(signals) == Append(signals, Signal("finished_signal", <<>>))

\* the thread has left run()
Exited == run.pc \in {"idle", "done"}

\* SyncWorker(sources).run() enters its try block
SyncWorker_run(sources) ==
    /\ Exited
    /\ run.n < MaxThreads
    /\ run' = [n |-> run.n + 1, kind |-> "sync", pc |-> "try", todo |-> sources,
               raised |-> FALSE, signals |-> <<>>]
    /\ UNCHANGED <<clVars, syncVars, sumVars, fetch, ui, agg, pdf, call, parse, seqVars>>

\* svc = SyncService(progress_callback=self._on_progress)
SyncService_created ==
    /\ run.kind = "sync"
    /\ run.pc = "try"
    /\ run' = [run EXCEPT !.pc = "loop"]
    /\ UNCHANGED <<clVars, syncVars, sumVars, fetch, ui, agg, pdf, call, parse, seqVars>>

\* the sync function of the next source returns, after its progress messages
sync_function_returns ==
    /\ run.kind = "sync"
    /\ run.pc = "loop"
    /\ run.todo # <<>>
    /\ \E k \in 0..MaxProgress :
          run' = [run EXCEPT !.todo = Tail(@), !.signals = on_progress(@, k)]
    /\ UNCHANGED <<clVars, syncVars, sumVars, fetch, ui, agg, pdf, call, parse, seqVars>>

\* the loop over the sources is over: self.finished_signal.emit()
SyncWorker_run_finishes ==
    /\ run.kind = "sync"
    /\ run.pc = "loop"
    /\ run.todo = <<>>
    /\ run' = [run EXCEPT !.pc = "done", !.signals = finished_signal_emit(@)]
    /\ UNCHANGED <<clVars, syncVars, sumVars, fetch, ui, agg, pdf, call, parse, seqVars>>

\* SyncService(...) or the sync function of the next source raises, the
\* latter after its progress messages
SyncWorker_run_raises ==
    /\ run.kind = "sync"
    /\ run.pc = "try" \/ (run.pc = "loop" /\ run.todo # <<>>)
    /\ \E e \in ErrorMessages, k \in 0..(IF run.pc = "try" THEN 0 ELSE MaxProgress) :
          run' = [run EXCEPT !.pc = "done", !.raised = TRUE,
                             !.signals = error_signal_emit(on_progress(@, k), e)]
    /\ UNCHANGED <<clVars, syncVars, sumVars, fetch, ui, agg, pdf, call, parse, seqVars>>

\* SummaryWorker(force).run() up to the call of generate_rolling_summaries:
\* self.progress_signal.emit("Generating AI summaries...")
SummaryWorker_run ==
    /\ Exited
    /\ run.n < MaxThreads
    /\ run' = [n |-> run.n + 1, kind |-> "summary", pc |-> "call", todo |-> <<>>,
               raised |-> FALSE,
               signals |-> <<Signal("progress_signal", <<"Generating AI summaries...">>)>>]
    /\ UNCHANGED <<clVars, syncVars, sumVars, fetch, ui, agg, pdf, call, parse, seqVars>>

\* generate_rolling_summaries returns: self.finished_signal.emit()
SummaryWorker_run_finishes ==
    /\ run.kind = "summary"
    /\ run.pc = "call"
    /\ run' = [run EXCEPT !.pc = "done", !.signals = finished_signal_emit(@)]
    /\ UNCHANGED <<clVars, syncVars, sumVars, fetch, ui, agg, pdf, call, parse, seqVars>>

\* SummaryService() or generate_rolling_summaries raises
SummaryWorker_run_raises ==
    /\ run.kind = "summary"
    /\ run.pc = "call"
    /\ \E e \in ErrorMessages :
          run' = [run EXCEPT !.pc = "done", !.raised = TRUE,
                             !.signals = error_signal_emit(@, e)]
    /\ UNCHANGED <<clVars, syncVars, sumVars, fetch, ui, agg, pdf, call, parse, seqVars>>

WorkerNext ==
    \/ \E sources \in SourceLists : SyncWorker_run(sources)
    \/ SyncService_created
    \/ sync_function_returns
    \/ SyncWorker_run_finishes
    \/ SyncWorker_run_raises
    \/ SummaryWorker_run
    \/ SummaryWorker_run_finishes
    \/ SummaryWorker_run_raises

----------------------------------------------------------------------------
(* Every writer of the store beside the others *)

\* whole sync calls fed at most one record, the one of Brightwheel with the
\* pass of the PDF post-processor at its end, and after them, as MainWindow
\* starts it when the sync is over, one summary generation with the
\* checklist reconciliation at its end
StoreNext ==
    \/ sum_clock = 0 /\ CallNext /\ Len(call'.fed) <= 1
    \/ sum_clock = 0 /\ \E force \in BOOLEAN : generate_rolling_summaries_begin(force)
    \/ generate_day_summary
    \/ generate_rolling_summaries_raises
    \/ generate_rolling_summaries_commit

----------------------------------------------------------------------------
(* sync_gmail against a list that is paged by continuation tokens *)

\* the pages of the Gmail list: page 1 is what pageToken=None returns, page
\* p > 1 what the nextPageToken that came with page p - 1 returns
PageAt(page_token) == IF page_token = None THEN 1 ELSE page_token[1]

\* fetch_messages(page_token): the messages of the page the token stands
\* for and result.get("nextPageToken"), absent on the last page
fetch_messages(pages, empty, page_token) ==
    [messages |-> IF PageAt(page_token) \in empty THEN <<>> ELSE <<"msg">>,
     next_token |-> IF PageAt(page_token) < pages
                    THEN Some(PageAt(page_token) + 1) ELSE None]

\* the frame of the passes against the paged list
cursorFrame ==
    <<clVars, syncVars, sumVars, fetch, ui, agg, pdf, call, parse, run,
      scan, recon, incr, chain>>

\* sync_gmail up to its loop: state = query(SyncState).first() and
\* page_token = state.page_cursor if state else None.  The list has grown
\* to pages pages, those of empty without a message
cursor_begin(pages, empty) ==
    /\ cursor.pc \in {"idle", "done", "failed"}
    /\ cursor.passes < MaxPasses
    /\ PageAt(page_cursor_of(cursor.state)) <= pages
    /\ cursor' = [cursor EXCEPT !.pc = "fetch", !.passes = @ + 1,
                                !.pages = pages, !.empty = empty,
                                !.page_token = page_cursor_of(cursor.state),
                                !.next_token = None, !.pages_fetched = 0,
                                !.used = <<>>, !.got = <<>>]
    /\ UNCHANGED cursorFrame

\* one iteration of "while pages_fetched < max_pages": the fetch with
\* page_token, "if not messages: break", then pages_fetched += 1,
\* page_token = next_token and "if not next_token: break"
cursor_fetch ==
    /\ cursor.pc = "fetch"
    /\ LET r == fetch_messages(cursor.pages, cursor.empty, cursor.page_token)
           log == [cursor EXCEPT !.used = Append(@, cursor.page_token),
                                 !.got = Append(@, r.next_token),
                                 !.next_token = r.next_token]
       IN cursor' =
            IF r.messages = <<>>
            THEN [log EXCEPT !.pc = "finish"]
            ELSE [log EXCEPT !.pages_fetched = @ + 1,
                             !.page_token = r.next_token,
                             !.pc = IF gmail_loop_continues(cursor.pages_fetched + 1,
                                                            r.messages, r.next_token)
                                    THEN "fetch" ELSE "finish"]
    /\ UNCHANGED cursorFrame

\* fetch_messages raises: session.rollback(), the Sync State stays as the
\* pass found it
cursor_raises ==
    /\ cursor.pc = "fetch"
    /\ cursor' = [cursor EXCEPT !.pc = "failed"]
    /\ UNCHANGED cursorFrame

\* state.page_cursor = next_token; session.commit().  kept is the token the
\* last fetch of the pass returned
cursor_commit ==
    /\ cursor.pc = "finish"
    /\ cursor' = [cursor EXCEPT !.pc = "done",
                                !.state = Some([page_cursor |-> cursor.next_token]),
                                !.kept = cursor.got[Len(cursor.got)]]
    /\ UNCHANGED cursorFrame

CursorNext ==
    \/ \E pages \in 1..MaxServerPages, empty \in SUBSET (1..MaxServerPages) :
          cursor_begin(pages, empty)
    \/ cursor_fetch
    \/ cursor_raises
    \/ cursor_commit

----------------------------------------------------------------------------
(* fetch_all_activities and fetch_all_messages over a feed of several pages *)

\* a student's feed as the API serves it: non-empty pages, newest first,
\* has_more set on every page but the last, on which it is last_more
ScanPages == FeedPages \ {<<>>}
ScanFeeds == UNION {[1..n -> ScanPages] : n \in 0..MaxFeed}

\* get_activities(student_id, page=page) / get_messages(student_id, page=page)
get_page(feed, last_more, page) ==
    IF page \in 1..Len(feed)
    THEN Page(feed[page], page < Len(feed) \/ last_more)
    ELSE Page(<<>>, FALSE)

scanFrame ==
    <<clVars, syncVars, sumVars, fetch, ui, agg, pdf, call, parse, run,
      cursor, recon, incr, chain>>

\* all_activities = []; page = 1.  A call keeps nothing of the calls before
\* it: one call is followed
fetch_all_begin(loop, feed, last_more, since) ==
    /\ scan.pc = "idle"
    /\ scan' = [pc |-> "loop", loop |-> loop, feed |-> feed, last_more |-> last_more,
                since |-> since, page |-> 1, fetched |-> 0, all |-> <<>>]
    /\ UNCHANGED scanFrame

\* one iteration of "while page <= max_pages": the fetch, "if not
\* activities: break", the records appended up to the first older one, at
\* which the call returns, "if not has_more: break", page += 1
fetch_all_iteration ==
    /\ scan.pc = "loop"
    /\ LET got == get_page(scan.feed, scan.last_more, scan.page)
       IN scan' = [scan EXCEPT
                     !.fetched = @ + 1,
                     !.all = @ \o appended_of(got.records, scan.since),
                     !.page = IF fetch_all_continues(scan.page + 1, got.records,
                                                     scan.since, got.more)
                              THEN @ + 1 ELSE @,
                     !.pc = IF fetch_all_continues(scan.page + 1, got.records,
                                                   scan.since, got.more)
                            THEN "loop" ELSE "returned"]
    /\ UNCHANGED scanFrame

ScanNext ==
    \/ /\ scan.pc = "idle"
       /\ \E loop \in {"activities", "messages"}, feed \in ScanFeeds,
             last_more \in BOOLEAN, since \in Watermarks :
             fetch_all_begin(loop, feed, last_more, since)
    \/ fetch_all_iteration

----------------------------------------------------------------------------
(* A reconciliation run of the summary worker beside the user's checks *)

\* session.commit() of a run that read the rows existing: the flush writes
\* the item_text of the matched rows, inserts the unmatched new texts and
\* deletes, by primary key, the rows whose loaded object was unmatched and
\* unchecked.  rows is the committed table at that moment
Flushed(rows, existing, category, new_texts, m) ==
    LET add == AddedIndices(new_texts, m)
        base == NextRowId(rows)
        deleted == {r.id : r \in {e \in existing : ShouldDelete(e, DOMAIN m)}}
    IN  {IF r.id \in DOMAIN m THEN UpdateMatched(r, new_texts[m[r.id]]) ELSE r :
           r \in {c \in rows : c.id \notin deleted}}
        \cup {ChecklistItem(base + k - 1, category, new_texts[add[k]]) : k \in 1..Len(add)}

reconFrame ==
    <<last, ratios, syncVars, sumVars, fetch, ui, agg, pdf, call, parse, run,
      cursor, scan, incr, chain>>

\* sync_items_from_summary on the worker thread, up to the query: existing
\* holds the rows as the query loaded them
sync_items_from_summary_query(category, new_texts) ==
    /\ recon.pc \in {"idle", "done"}
    /\ recon.runs < MaxRuns
    /\ recon' = [pc |-> "loaded", runs |-> recon.runs + 1, category |-> category,
                 new_texts |-> new_texts, existing |-> Existing(checklist, category),
                 checked |-> {}]
    /\ UNCHANGED <<checklist, reconFrame>>

\* the three loops over the loaded objects and session.commit().  checked is
\* the ids of the rows committed as checked at that moment
sync_items_from_summary_commit ==
    /\ recon.pc = "loaded"
    /\ LET m == Matching(recon.existing, recon.new_texts)
       IN /\ NextRowId(checklist) + Len(AddedIndices(recon.new_texts, m)) - 1 <= MaxId
          /\ checklist' = Flushed(checklist, recon.existing, recon.category,
                                  recon.new_texts, m)
    /\ recon' = [recon EXCEPT !.pc = "done",
                              !.checked = {r.id : r \in {c \in checklist : c.is_checked}}]
    /\ UNCHANGED reconFrame

\* except Exception: session.rollback(); raise
sync_items_from_summary_rollback ==
    /\ recon.pc = "loaded"
    /\ recon' = [recon EXCEPT !.pc = "done"]
    /\ UNCHANGED <<checklist, reconFrame>>

\* the user's clicks on the dashboard while the worker runs
RaceNext ==
    \/ \E item_id \in 1..MaxId : toggle_item(item_id)
    \/ \E item_id \in 1..MaxId, checked \in BOOLEAN : set_item_checked(item_id, checked)
    \/ /\ recon.pc \in {"idle", "done"}
       /\ \E category \in Categories, new_texts \in NewTextLists :
             sync_items_from_summary_query(category, new_texts)
    \/ sync_items_from_summary_commit
    \/ sync_items_from_summary_rollback

----------------------------------------------------------------------------
(* Incremental sync_brightwheel passes over a feed that grows *)

incrFrame ==
    <<clVars, syncVars, sumVars, fetch, ui, agg, pdf, call, parse, run,
      cursor, scan, recon, chain>>

\* time passes
clock_ticks ==
    /\ incr.clock < MaxTicks
    /\ incr' = [incr EXCEPT !.clock = @ + 1]
    /\ UNCHANGED incrFrame

\* the school posts an activity: it is the newest record of the student's
\* feed, created_at the instant of posting
source_creates ==
    /\ Len(incr.source) < MaxId
    /\ incr' = [incr EXCEPT !.source =
                   <<[id |-> Len(incr.source) + 1,
                      created |-> Some([parses |-> TRUE, ts |-> incr.clock])]>> \o @]
    /\ UNCHANGED incrFrame

\* state = query(SyncState).first(); since = state.last_sync_at if state else None
incremental_pass_begin ==
    /\ incr.pc = "idle"
    /\ incr' = [incr EXCEPT !.pc = "begun", !.since = incr.last_sync_at,
                            !.activities = <<>>]
    /\ UNCHANGED incrFrame

\* activities = bw.fetch_all_activities(student_id, since=since): the feed
\* as it is now, in one page, scanned up to the first record older than since
incremental_pass_fetch ==
    /\ incr.pc = "begun"
    /\ incr' = [incr EXCEPT !.pc = "fetched",
                            !.activities = appended_of(incr.source, incr.since)]
    /\ UNCHANGED incrFrame

\* the records stored through _store_bw_item, state.last_sync_at =
\* datetime.now() and session.commit()
incremental_pass_commit ==
    /\ incr.pc = "fetched"
    /\ incr' = [incr EXCEPT !.pc = "idle",
                            !.stored = @ \cup {incr.activities[k].id :
                                                 k \in 1..Len(incr.activities)},
                            !.last_sync_at = Some(incr.clock)]
    /\ UNCHANGED incrFrame

\* except Exception: session.rollback(); raise
incremental_pass_rollback ==
    /\ incr.pc \in {"begun", "fetched"}
    /\ incr' = [incr EXCEPT !.pc = "idle"]
    /\ UNCHANGED incrFrame

IncrNext ==
    \/ clock_ticks
    \/ source_creates
    \/ incremental_pass_begin
    \/ incremental_pass_fetch
    \/ incremental_pass_commit
    \/ incremental_pass_rollback

----------------------------------------------------------------------------
(* A sync run over its sources, its signal, and the summary that follows *)

chainFrame ==
    <<clVars, syncVars, sumVars, fetch, ui, agg, pdf, call, parse, run,
      cursor, scan, recon, incr>>

\* a slot for error_signal that goes on like the one for finished_signal
on_sync_error_StartsSummary(u) == run_summary_of(u, FALSE)

\* _on_sync_error: the buttons and the status bar only
on_sync_error_of(u) == u

\* the slot started a summary worker
Started(u, after) == after.summary_threads # u.summary_threads

\* _sync_all or _sync_source: _run_sync(sources).  A started worker enters
\* run() with its source list
window_run_sync(sources) ==
    /\ chain.u.created < MaxWorkers
    /\ LET after == run_sync_of(chain.u, sources)
       IN chain' = IF after.request.started
                   THEN [chain EXCEPT !.u = after, !.todo = sources,
                                      !.attempted = <<>>, !.committed = <<>>,
                                      !.failed_at = None, !.status = "running",
                                      !.emitted = "none"]
                   ELSE [chain EXCEPT !.u = after]
    /\ UNCHANGED chainFrame

\* the sync function of the next source of the list is called and returns:
\* its pass has committed, and no summary generation has read its items yet
source_sync_returns ==
    /\ chain.status = "running"
    /\ chain.todo # <<>>
    /\ chain' = [chain EXCEPT !.todo = Tail(@),
                              !.attempted = Append(@, Head(chain.todo)),
                              !.committed = Append(@, Head(chain.todo)),
                              !.unread = TRUE,
                              !.rows = @ \cup {<<chain.u.sync_worker[1].id,
                                                 Head(chain.todo)>>}]
    /\ UNCHANGED chainFrame

\* the sync function of the next source raises after its rollback: the
\* except branch of run() emits error_signal and the thread ends
source_sync_raises ==
    /\ chain.status = "running"
    /\ chain.todo # <<>>
    /\ chain' = [chain EXCEPT !.attempted = Append(@, Head(chain.todo)),
                              !.failed_at = Some(Head(chain.todo)),
                              !.status = "failed", !.emitted = "error",
                              !.queue = Append(@, "error"),
                              !.u.sync_threads = {}]
    /\ UNCHANGED chainFrame

\* SyncService(...) raises before the loop
sync_service_raises ==
    /\ chain.status = "running"
    /\ chain.attempted = <<>>
    /\ chain' = [chain EXCEPT !.status = "failed", !.emitted = "error",
                              !.queue = Append(@, "error"),
                              !.u.sync_threads = {}]
    /\ UNCHANGED chainFrame

\* the loop is over: finished_signal.emit() and the thread ends.  Items
\* committed and not read yet are owed a summary generation that reads them
sync_run_finishes ==
    /\ chain.status = "running"
    /\ chain.todo = <<>>
    /\ chain' = [chain EXCEPT !.status = "finished", !.emitted = "finished",
                              !.queue = Append(@, "finished"),
                              !.u.sync_threads = {},
                              !.owed = chain.unread]
    /\ UNCHANGED chainFrame

\* the slot _on_sync_finished runs for the oldest waiting signal: it ends
\* with self._run_summary()
window_on_sync_finished ==
    /\ chain.queue # <<>>
    /\ Head(chain.queue) = "finished"
    /\ chain.u.created < MaxWorkers
    /\ LET after == run_summary_of(chain.u, FALSE)
       IN chain' = [chain EXCEPT !.u = after, !.queue = Tail(@),
                                 !.read = IF Started(chain.u, after) THEN FALSE ELSE @,
                                 !.handled = [signal |-> "finished",
                                              started |-> Started(chain.u, after)]]
    /\ UNCHANGED chainFrame

\* the slot _on_sync_error runs for the oldest waiting signal
window_on_sync_error ==
    /\ chain.queue # <<>>
    /\ Head(chain.queue) = "error"
    /\ chain.u.created < MaxWorkers
    /\ LET after == on_sync_error_of(chain.u)
       IN chain' = [chain EXCEPT !.u = after, !.queue = Tail(@),
                                 !.read = IF Started(chain.u, after) THEN FALSE ELSE @,
                                 !.handled = [signal |-> "error",
                                              started |-> Started(chain.u, after)]]
    /\ UNCHANGED chainFrame

\* regenerate_requested of the dashboard: _run_summary(force=True)
window_regenerate_requested ==
    /\ chain.u.created < MaxWorkers
    /\ LET after == run_summary_of(chain.u, TRUE)
       IN chain' = [chain EXCEPT !.u = after,
                                 !.read = IF Started(chain.u, after) THEN FALSE ELSE @]
    /\ UNCHANGED chainFrame

\* the running summary worker queries the items of its days: it reads what
\* the syncs have committed by now
summary_worker_reads ==
    /\ chain.u.summary_threads # {}
    /\ ~chain.read
    /\ chain' = [chain EXCEPT !.read = TRUE, !.unread = FALSE, !.owed = FALSE]
    /\ UNCHANGED chainFrame

\* SummaryWorker.run returns, generate_rolling_summaries having read its days
summary_worker_exits ==
    /\ chain.u.summary_threads # {}
    /\ chain.read
    /\ chain' = [chain EXCEPT !.u.summary_threads = {}]
    /\ UNCHANGED chainFrame

ChainNext ==
    \/ \E sources \in SourceLists : window_run_sync(sources)
    \/ source_sync_returns
    \/ source_sync_raises
    \/ sync_service_raises
    \/ sync_run_finishes
    \/ window_on_sync_finished
    \/ window_on_sync_error
    \/ window_regenerate_requested
    \/ summary_worker_reads
    \/ summary_worker_exits

----------------------------------------------------------------------------
(* A summary generation beside sync passes that write, commit or roll back *)

\* the sync worker runs sync_gmail page by page in its session, after a
\* pass that has committed the first record, while the summary worker runs
\* one generate_rolling_summaries call in its own
BesideNext ==
    \/ db.items = {} /\ sync_pass_commits
    \/ SyncWorker_start(<<"gmail">>)
    \/ SyncWorker_finished
    \/ sync_gmail_begin
    \/ sync_gmail_page
    \/ sync_gmail_finish
    \/ sync_raises
    \/ sum_clock = 0 /\ \E force \in BOOLEAN : generate_rolling_summaries_begin(force)
    \/ generate_day_summary
    \/ generate_rolling_summaries_raises
    \/ generate_rolling_summaries_commit

----------------------------------------------------------------------------
(* The user's checks and reconciliations of at most one text *)

\* the new_texts of a category whose summaries hold at most one entry
ShortTextLists == {new_texts \in NewTextLists : Len(new_texts) <= 1}

CheckedNext ==
    \/ \E item_id \in 1..MaxId : toggle_item(item_id)
    \/ \E item_id \in 1..MaxId, checked \in BOOLEAN : set_item_checked(item_id, checked)
    \/ \E category \in Categories, new_texts \in ShortTextLists :
          sync_items_from_summary(category, new_texts)

----------------------------------------------------------------------------
(* Specifications *)

Init ==
    /\ ClInit /\ SyncInit /\ SumInit /\ PagingInit /\ UiInit
    /\ agg = NoCall
    /\ ExtInit

SpecChecklist == Init /\ [][ClNext]_vars

SpecSync == Init /\ [][SyncNext]_vars

SpecSummary == Init /\ [][SumNext]_vars

SpecPaging == Init /\ [][PagingNext]_vars

SpecMainWindow == Init /\ [][UiNext]_vars

SpecAggregate == AggInit /\ [][AggNext]_vars

SpecPdf == PdfInit /\ [][PdfNext]_vars

SpecCalls == Init /\ [][CallNext]_vars

SpecParse == Init /\ [][ParseNext]_vars

SpecWorker == Init /\ [][WorkerNext]_vars

SpecStore == Init /\ [][StoreNext]_vars

\* a running loop is a thread inside a blocking call that returns or raises:
\* its next step is taken
SpecCursor == Init /\ [][CursorNext]_vars

SpecScan == Init /\ [][ScanNext]_vars

SpecRace == Init /\ [][RaceNext]_vars

SpecIncr == Init /\ [][IncrNext]_vars

SpecChain == Init /\ [][ChainNext]_vars

SpecBeside == Init /\ [][BesideNext]_vars

SpecChecked == Init /\ [][CheckedNext]_vars

SpecPagingFair == SpecPaging /\ WF_vars(LoopStep)

\* passes keep being started, and of the passes that can fetch and of those
\* that can commit some do: successful passes never cease
SpecIncrFair ==
    SpecIncr /\ WF_vars(incremental_pass_begin) /\ SF_vars(incremental_pass_fetch)
             /\ SF_vars(incremental_pass_commit)

----------------------------------------------------------------------------
(* Properties of the checklist reconciliation *)

LastWasReconciliation == last.op = "sync_items_from_summary"

\* the rows the last reconciliation run inserted: rows of its category whose
\* id no row had when the run read the table
InsertedByLast ==
    {r \in Existing(checklist, last.category) : r.id \notin {b.id : b \in last.before}}

\* C1: an item that is checked when a reconciliation run starts still exists
\* and is still checked when the run ends, matched or not.
C1_CheckedSurvivesReconciliation ==
    LastWasReconciliation =>
        \A b \in last.before :
            b.is_checked =>
                \E r \in checklist :
                    r.id = b.id /\ r.category = b.category /\ r.is_checked

\* a run with a non-empty new-text list has ended, and an item that was
\* checked and matched none of the new texts is still there
C1_Witness ==
    /\ LastWasReconciliation
    /\ Len(last.new_texts) >= 1
    /\ \E b \in last.before :
          /\ b.is_checked
          /\ b.id \notin DOMAIN last.matched
          /\ HasItem(checklist, b.id)

\* C2: every existing item the run matched to a new text (ratio >= 0.75
\* against the item's text) is the same row afterwards, with is_checked and
\* checked_at unchanged and item_text overwritten by that new text; and the
\* run inserted a row only for the new texts that matched nothing, so a
\* matched new text has exactly one item.
C2_MatchedItemUpdatedInPlace ==
    LastWasReconciliation =>
        /\ \A id \in DOMAIN last.matched :
              LET b == GetItem(last.before, id)
                  new_text == last.new_texts[last.matched[id]]
              IN  /\ RatioGE(ItemRatio(b.item_text, new_text),
                             <<MATCH_THRESHOLD_NUM, MATCH_THRESHOLD_DEN>>)
                  /\ [b EXCEPT !.item_text = new_text] \in checklist
                  /\ Cardinality({r \in checklist : r.id = id}) = 1
        /\ Cardinality(InsertedByLast)
             = Len(last.new_texts) - Cardinality(DOMAIN last.matched)
        /\ \A r \in InsertedByLast :
              \E k \in (1..Len(last.new_texts)) \ matched_new_indices(last.matched) :
                  r.item_text = last.new_texts[k]

\* a run matched a checked item to a new text worded differently, and the
\* item now carries the new wording, still checked
C2_Witness ==
    /\ LastWasReconciliation
    /\ \E id \in DOMAIN last.matched :
          LET b == GetItem(last.before, id)
          IN  /\ b.is_checked
              /\ b.item_text # last.new_texts[last.matched[id]]
              /\ \E r \in checklist :
                    /\ r.id = id
                    /\ r.is_checked
                    /\ r.item_text = last.new_texts[last.matched[id]]

----------------------------------------------------------------------------
(* Properties of the sync passes *)

\* the identifiers _store_bw_item refuses to store
Degenerate(source_id) == source_id \in {"", "bw_act_", "bw_msg_"}

\* C3: a record handed to a dedup writer while a row with its source_id is
\* visible is not inserted (the writer returns 0, the record is not counted)
\* and changes no row and no attachment, and exactly one row has the
\* source_id afterwards; a record whose source_id is not degenerate and not
\* yet stored is inserted once, so the second of two equal records of one
\* fetch finds the first; a record with a degenerate source_id ("",
\* "bw_act_", "bw_msg_") is never stored by _store_bw_item: both calls return
\* 0 and no row has that source_id.
C3_DedupWriterIdempotent ==
    \A k \in 1..Len(sync.log) :
        LET e == sync.log[k]
        IN  /\ e.existed => (e.ret = 0 /\ ~e.changed /\ e.rows = 1)
            /\ (~e.existed /\ ~Degenerate(e.source_id)) => (e.ret = 1 /\ e.rows = 1)
            /\ Degenerate(e.source_id) => (e.ret = 0 /\ ~e.changed /\ e.rows = 0)
            /\ \A j \in 1..(k - 1) :
                  (sync.log[j].source_id = e.source_id /\ ~Degenerate(e.source_id))
                      => e.existed

\* the statement as the specification words it: storing the same record
\* twice leaves exactly one row for its source_id, whatever the record
C3_ExactlyOneRowForAnyRecord ==
    \A j, k \in 1..Len(sync.log) :
        (j < k /\ sync.log[j].source_id = sync.log[k].source_id)
            => (sync.log[k].ret = 0 /\ ~sync.log[k].changed /\ sync.log[k].rows = 1)

\* one fetch delivered the same new record twice: the first was inserted,
\* the second was not and changed nothing
C3_Witness ==
    \E j, k \in 1..Len(sync.log) :
        /\ j < k
        /\ sync.log[j].source_id = sync.log[k].source_id
        /\ sync.log[j].ret = 1
        /\ sync.log[k].ret = 0
        /\ ~sync.log[k].changed
        /\ sync.log[k].rows = 1

\* no two rows of the table have the same source_id
UniqueSourceIds(items) ==
    \A i, j \in items : i.source_id = j.source_id => i = j

\* C4: in every reachable state no two Communication Items share a
\* source_id, among the committed rows and among the rows an open session
\* has flushed.
C4_SourceIdUnique ==
    UniqueSourceIds(db.items) /\ UniqueSourceIds(session.items)

\* a later pass is delivered an id that an earlier, committed pass stored,
\* next to a row of another source
C4_Witness ==
    /\ Cardinality(session.items) >= 2
    /\ \E k \in 1..Len(sync.log) :
          /\ sync.log[k].existed
          /\ \E i \in db.items : i.source_id = sync.log[k].source_id

\* C5: while a sync pass runs the committed items, attachments and sync
\* state are those of its start, and when the pass ends with an exception
\* the caller gets the exception, the committed rows (the source's
\* last_sync_at and page_cursor among them) are exactly those of the start
\* of the pass, and the session holds nothing of the pass.
C5_FailedPassPersistsNothing ==
    /\ sync.pc # "idle" => db = sync.before
    /\ sync_out.status = "error" =>
          /\ db = sync_out.before
          /\ session = db
          /\ sync.pc = "idle"

\* a pass of a source that already has a sync state row added a row and
\* then ended with an exception
C5_Witness ==
    /\ sync_out.status = "error"
    /\ sync_out.total_new >= 1
    /\ sync_out.before.sync_state[sync_out.source] # None
    /\ db.sync_state[sync_out.source] = sync_out.before.sync_state[sync_out.source]

----------------------------------------------------------------------------
(* Properties of the summary generation *)

\* the last two generate_rolling_summaries calls both returned normally and
\* both had force=false
TwoUnforcedRuns ==
    /\ sum_out.status = "ok" /\ ~sum_out.force
    /\ sum_out.previous.status = "ok" /\ ~sum_out.previous.force

\* 1 when the day's entry records an LLM call
Calls(e) == IF e.called THEN 1 ELSE 0

\* C6: of two consecutive calls with force=false that return, for a day
\* whose item ids are the same in both, the second makes no LLM call for the
\* day and leaves the committed row of the day as it was, generated_at
\* included; the two calls together make exactly one LLM call for the day
\* when the day has items and had no up-to-date row before the first call.
C6_SecondUnforcedCallSkips ==
    TwoUnforcedRuns =>
        \A k \in DOMAIN sum_out.log :
            LET e1 == sum_out.previous.log[k]
                e2 == sum_out.log[k]
            IN  e1.ids = e2.ids =>
                  /\ ~e2.called
                  /\ e2.date \notin sum_out.changed
                  /\ (e1.ids # <<>> /\ ~e1.uptodate) => Calls(e1) + Calls(e2) = 1

\* the first call generated a day's summary and the second call, with the
\* same item ids, skipped it: the row still has the first call's generated_at
C6_Witness ==
    /\ TwoUnforcedRuns
    /\ \E k \in DOMAIN sum_out.log :
          /\ sum_out.previous.log[k].called
          /\ sum_out.previous.log[k].ids = sum_out.log[k].ids
          /\ ~sum_out.log[k].called
          /\ \E r \in summaries :
                /\ r.date = sum_out.log[k].date
                /\ r.generated_at < sum_out.now

\* C7: a call with force=true that returns has made an LLM call for every
\* day of the window that has an item, also where the stored source_item_ids
\* equalled the current ids, and the day has exactly one row: the row that
\* existed before (same id) or a new one, with the current ids and the
\* generated_at of this call.
C7_ForceRegeneratesEveryDay ==
    (sum_out.status = "ok" /\ sum_out.force) =>
        \A k \in DOMAIN sum_out.log :
            LET e == sum_out.log[k]
                rows == {r \in summaries : r.date = e.date}
            IN  e.ids # <<>> =>
                  /\ e.called
                  /\ Cardinality(rows) = 1
                  /\ \A r \in rows :
                        /\ r.generated_at = sum_out.now
                        /\ r.source_item_ids = e.ids
                        /\ e.existing_id # None => r.id = e.existing_id[1]

\* a forced call regenerated a day whose stored ids equalled the current
\* ids: the LLM was called and the same row carries the new generated_at
C7_Witness ==
    /\ sum_out.status = "ok" /\ sum_out.force
    /\ \E k \in DOMAIN sum_out.log :
          LET e == sum_out.log[k]
          IN  /\ e.uptodate
              /\ e.called
              /\ \E r \in summaries :
                    /\ r.date = e.date
                    /\ r.id = e.existing_id[1]
                    /\ r.generated_at = sum_out.now
                    /\ sum_out.now > 1

\* the entries of the days handled by the running call and by the last
\* call that ended
DayEntries ==
    {sum.log[k] : k \in DOMAIN sum.log} \cup {sum_out.log[k] : k \in DOMAIN sum_out.log}

\* C8: a day without items gets no LLM call, with force true or false, and
\* no Daily Summary row, committed or pending: every row has a non-empty
\* source_item_ids and its date has an item.
C8_NoSummaryForEmptyDay ==
    /\ \A e \in DayEntries : e.ids = <<>> => ~e.called
    /\ \A r \in summaries \cup sum.rows :
          /\ r.source_item_ids # <<>>
          /\ items_of_day(db.items, r.date) # {}

\* a forced call returned: it called the LLM for a day with items and
\* passed over a day without items, which has no row
C8_Witness ==
    /\ sum_out.status = "ok" /\ sum_out.force
    /\ \E j, k \in DOMAIN sum_out.log :
          /\ sum_out.log[j].called
          /\ sum_out.log[k].ids = <<>>
          /\ ~sum_out.log[k].called
          /\ \A r \in summaries : r.date # sum_out.log[k].date

\* C9: no generate_rolling_summaries call ends with an exception raised on
\* a response text that is not valid JSON.
C9_MalformedResponseNeverFatal ==
    ~ /\ sum_out.status = "error"
      /\ sum_out.raised_on # None
      /\ sum_out.raised_on[1].response # None
      /\ ~IsJsonObject(sum_out.raised_on[1].response[1])
      /\ ~IsJsonArray(sum_out.raised_on[1].response[1])

\* C10: while a call runs the committed Daily Summary rows are those of its
\* start, and when it ends with an exception the caller gets the exception
\* and no committed row differs from the one before the call, the rows of
\* the days it had summarized before the failure included.
C10_FailedWindowPersistsNothing ==
    /\ sum.pc # "idle" => summaries = sum.before
    /\ sum_out.status = "error" =>
          /\ sum_out.changed = {}
          /\ sum = SumIdle

\* a call that had summarized a day ended with an exception on a later
\* day, with summaries of an earlier call in the table
C10_Witness ==
    /\ sum_out.status = "error"
    /\ summaries # {}
    /\ sum_out.raised_on # None
    /\ sum_out.raised_on[1].date # None
    /\ \E k \in DOMAIN sum_out.log : sum_out.log[k].called

----------------------------------------------------------------------------
(* Properties of the second sitting: reconciliation *)

C12_DeletesExactlyUnmatchedUnchecked ==
    LastWasReconciliation =>
        \A b \in last.before :
            /\ ~HasItem(checklist, b.id) <=>
                   (~b.is_checked /\ b.id \notin DOMAIN last.matched)
            /\ (~b.is_checked /\ b.id \in DOMAIN last.matched) =>
                   \E r \in checklist :
                       /\ r.id = b.id
                       /\ r.category = b.category
                       /\ ~r.is_checked
                       /\ r.item_text = last.new_texts[last.matched[b.id]]

\* a run found two unchecked items, matched one to a text that differs from
\* its own and deleted the other
C12_Witness ==
    /\ LastWasReconciliation
    /\ \E b \in last.before :
          /\ ~b.is_checked
          /\ b.id \notin DOMAIN last.matched
          /\ ~HasItem(checklist, b.id)
    /\ \E b \in last.before :
          /\ ~b.is_checked
          /\ b.id \in DOMAIN last.matched
          /\ last.new_texts[last.matched[b.id]] # b.item_text
          /\ HasItem(checklist, b.id)

----------------------------------------------------------------------------
(* Properties of the second sitting: sync passes *)

\* communication_items rows of one source
ItemsOf(tables, source) == {i \in tables.items : i.source = source}

\* C14: when the sync of one source fails, the Sync State row and the
\* Communication Items of every other source are what they were when the
\* failing pass started, and the sources the same SyncWorker run had synced
\* before it keep their committed Sync State.
C14_FailedPassLeavesOtherSources ==
    sync_out.status = "error" =>
        /\ \A s \in Sources \ {sync_out.source} :
              /\ db.sync_state[s] = sync_out.before.sync_state[s]
              /\ ItemsOf(db, s) = ItemsOf(sync_out.before, s)
        /\ worker.status = "error" =>
              \A k \in 1..Len(worker.done) : db.sync_state[worker.done[k]] # None

\* a pass that had flushed a new row failed in a run that had synced another
\* source before it, whose items are committed
C14_Witness ==
    /\ sync_out.status = "error"
    /\ worker.status = "error"
    /\ sync_out.total_new >= 1
    /\ worker.done # <<>>
    /\ ItemsOf(db, worker.done[1]) # {}

\* C15: a pass that returns normally has committed the source's Sync State
\* together with its new items, in its one commit: nothing of the pass is
\* committed while it runs, and afterwards last_sync_at is the pass's
\* datetime.now(), page_cursor is the continuation of the last page fetch for
\* mail (null when there was none) and null for the other sources, and the
\* source has total_new rows more than before.
C15_SyncStateCommittedWithItems ==
    /\ sync.pc # "idle" => db = sync.before
    /\ (sync_out.status = "ok" /\ ~sync_out.skipped) =>
          /\ sync_out.now # None
          /\ db.sync_state[sync_out.source] =
                Some([last_sync_at |-> sync_out.now,
                      page_cursor |-> IF sync_out.source = "gmail"
                                      THEN sync_out.next_token ELSE None])
          /\ Cardinality(ItemsOf(db, sync_out.source)) =
                Cardinality(ItemsOf(sync_out.before, sync_out.source))
                  + sync_out.total_new

\* a mail pass has returned normally after storing a new item, and its last
\* page fetch had returned a continuation
C15_Witness ==
    /\ sync_out.status = "ok"
    /\ sync_out.source = "gmail"
    /\ sync_out.total_new >= 1
    /\ sync_out.next_token # None

----------------------------------------------------------------------------
(* Properties of the second sitting: page loops *)

\* the page fetches of a loop stay within its limit, and a loop that is still
\* running has seen nothing but non-empty pages that came with a continuation
PageFetchesBounded ==
    /\ fetch.loop = "gmail" => fetch.fetches <= max_pages
    /\ fetch.loop \in {"activities", "messages"} =>
          fetch.fetches <= fetch_all_max_pages
    /\ (fetch.pc = "loop" /\ fetch.fetches > 0) =>
          fetch.last_page.records # <<>> /\ fetch.last_page.more

\* C16: every page loop ends, whatever the adapter returns: sync_gmail makes
\* at most 10 page fetches in a pass, fetch_all_activities and
\* fetch_all_messages at most 20 in a call, and a loop goes on only after a
\* non-empty page that came with a continuation.
C16_PageLoopsTerminate ==
    /\ []PageFetchesBounded
    /\ (fetch.pc = "loop") ~> (fetch.pc = "done")

\* fetch_all_activities has ended at its page limit, after a last page that
\* was not empty and announced more
C16_Witness ==
    /\ fetch.pc = "done"
    /\ fetch.loop = "activities"
    /\ fetch.fetches = fetch_all_max_pages
    /\ fetch.last_page.records # <<>>
    /\ fetch.last_page.more
    /\ first_older(fetch.last_page.records, fetch.since) = 0

\* C17: every adapter is given the last_sync_at of its source's Sync State as
\* since and ends its page scan at the first record older than it: a loop of
\* a source that has a watermark fetches no page after one that holds a
\* record older than the watermark.
C17_ScanStopsAtWatermark ==
    (fetch.watermark # None
       /\ \E k \in 1..Len(fetch.last_page.records) :
             is_older(fetch.last_page.records[k], fetch.watermark)) =>
        fetch.pc # "loop"

----------------------------------------------------------------------------
(* Properties of the second sitting: the workers of the main window *)

\* C18: at most one sync worker and at most one summary worker is running at
\* any time; a request that comes while a worker of its kind is running
\* starts none and changes neither the reference to the running worker nor
\* the worker, and a request that comes while none is running starts one.
\* A worker is started by a request only: the threads alive are at most the
\* two the references point at.
C18_OneWorkerOfEachKind ==
    /\ Cardinality(ui.sync_threads) <= 1
    /\ Cardinality(ui.summary_threads) <= 1
    /\ ui.request.was_running => ~ui.request.started /\ ~ui.request.altered
    /\ (ui.request.kind # "none" /\ ~ui.request.was_running) => ui.request.started
    /\ \A thread \in ui.sync_threads : ui.sync_worker = Some(thread)
    /\ \A thread \in ui.summary_threads : ui.summary_worker = Some(thread)

\* a sync request has been dropped while a sync worker and a summary worker
\* were running, and they still are
C18_Witness ==
    /\ ui.request.kind = "sync"
    /\ ui.request.was_running
    /\ ~ui.request.started
    /\ ui.sync_threads # {}
    /\ ui.summary_threads # {}

----------------------------------------------------------------------------
(* Properties of the second sitting: summaries *)

\* the entries of a category in the committed Daily Summaries
EntriesOf(category) ==
    UNION {{category_list(r, category)[k] : k \in 1..Len(category_list(r, category))} :
             r \in summaries}

\* C19: a generate_rolling_summaries call that reaches its commit returns
\* normally with every row it wrote committed, whether the checklist
\* reconciliation after the commit raised or not; when the reconciliation
\* did not raise it was called for action_items and then for key_dates with
\* lists holding every entry of the committed summaries (up to the
\* normalization of the aggregation), and when it raised inside the
\* reconciler it left the checklist as the failed run found it.
C19_ReconciliationFailureNotFatal ==
    sum_out.status = "ok" =>
        /\ \A k \in 1..Len(sum_out.log) :
              sum_out.log[k].called =>
                  \E r \in summaries :
                      /\ r.date = sum_out.log[k].date
                      /\ r.source_item_ids = sum_out.log[k].ids
                      /\ r.generated_at = sum_out.now
        /\ sum_out.reconciled = "both" =>
              /\ LastWasReconciliation
              /\ last.category = "key_dates"
              /\ \A e \in EntriesOf("key_dates") :
                    \E j \in 1..Len(last.new_texts) :
                        normalized(last.new_texts[j]) = normalized(e)
              /\ \A e \in EntriesOf("action_items") :
                    \E r \in Existing(checklist, "action_items") :
                        normalized(r.item_text) = normalized(e)
        /\ (sum_out.reconciled # "both" /\ last.op = "sync_items_from_summary_raised") =>
              ~last.persisted

\* a call has committed the row of a day it summarized and returned normally
\* although the reconciliation of the first category raised
C19_Witness ==
    /\ sum_out.status = "ok"
    /\ sum_out.reconciled = "none"
    /\ last.op = "sync_items_from_summary_raised"
    /\ last.discarded
    /\ \E k \in 1..Len(sum_out.log) : sum_out.log[k].called
    /\ summaries # {}

----------------------------------------------------------------------------
(* Properties of the aggregation *)

\* the entries of a category over the window, the most recent day first and
\* within a day in stored order
RECURSIVE EntriesInOrder(_, _)
EntriesInOrder(category, dates) ==
    IF dates = <<>> THEN <<>>
    ELSE LET rows == {r \in summaries : r.date = Head(dates)}
         IN  (IF rows = {} THEN <<>>
              ELSE category_list(CHOOSE r \in rows : TRUE, category))
             \o EntriesInOrder(category, Tail(dates))

\* two entries are equal once trimmed and compared without case
SameEntry(a, b) ==
    LET ca == Chars(a)
        cb == Chars(b)
        Blank(c, k) == c[k] = " "
        Core(c) == {k \in 1..Len(c) : (\E i \in 1..k : ~Blank(c, i))
                                        /\ (\E j \in k..Len(c) : ~Blank(c, j))}
        Fold(x) == IF x = "P" THEN "p" ELSE x
    IN  /\ Cardinality(Core(ca)) = Cardinality(Core(cb))
        /\ \A k \in Core(ca) :
              LET m == k - Min0(Core(ca)) + Min0(Core(cb))
              IN  m \in Core(cb) /\ Fold(ca[k]) = Fold(cb[m])

\* the indices of a list that hold the first occurrence of their entry
FirstOccurrences(entries) ==
    {i \in 1..Len(entries) : \A j \in 1..(i - 1) : ~SameEntry(entries[j], entries[i])}

\* the entries at a set of indices, in index order
EntriesAt(entries, indices) ==
    LET order == SortedSeq(indices)
    IN  [k \in 1..Len(order) |-> entries[order[k]]]

\* C20: for each of the four categories get_aggregated_summary returns the
\* entries of the window's Daily Summaries, most recent day first and within
\* a day in stored order, keeping only the first occurrence of each entry
\* under case-insensitive, whitespace-trimmed equality, in first-seen order
\* and with the kept entry's own text
C20_AggregateKeepsFirstOccurrences ==
    agg.called =>
        /\ DOMAIN agg.result = AggregatedCategories
        /\ \A c \in AggregatedCategories :
              LET entries == EntriesInOrder(c, WindowDates)
              IN  agg.result[c] = EntriesAt(entries, FirstOccurrences(entries))

\* a call that dropped a later entry differing in case only within a day,
\* and one differing in whitespace only across the days, while a category of
\* the same call kept both days' entries
C20_Witness ==
    /\ agg.called
    /\ EntriesInOrder("key_dates", WindowDates) = <<"Pay1", "pay1", " pay1 ", "Pa">>
    /\ agg.result["key_dates"] = <<"Pay1", "Pa">>
    /\ EntriesInOrder("deadlines", WindowDates) = <<" pay1 ", "Pa", "pay1", "Pay1">>
    /\ agg.result["deadlines"] = <<" pay1 ", "Pa">>
    /\ agg.result["curriculum_updates"] = <<"Pay1">>

----------------------------------------------------------------------------
(* Properties of the PDF post-processor *)

\* the running total of the first k chunks of a response
RECURSIVE BytesUpTo(_, _)
BytesUpTo(chunks, k) == IF k = 0 THEN 0 ELSE BytesUpTo(chunks, k - 1) + chunks[k]

\* the row is as it was before the pass, not downloaded, without local_path
\* and extracted_text, and the query of a later pass selects it
LeftForRetry(id) ==
    LET a == AttachmentOf(db.attachments, id)
    IN  /\ a \in pdf.before
        /\ ~a.is_downloaded /\ a.local_path = None /\ a.extracted_text = None
        /\ id \in pending_ids(db)

\* C21: a download whose content-length header exceeds 10 MB reads no body
\* byte, and a download whose running byte total exceeds 10 MB stops at the
\* chunk that exceeded it; in both cases the attachment stays
\* is_downloaded=false without local_path and extracted_text and a later
\* pass selects it again.
C21_OversizedPdfLeftPending ==
    pdf.ran =>
        \A id \in pdf.selected :
            LET h == pdf.handled[id]
                chunks == h.resp.chunks
                over == {k \in 1..Len(chunks) : BytesUpTo(chunks, k) > 10485760}
            IN  /\ (~h.resp.raises /\ h.resp.content_length > 10485760) =>
                      /\ h.did.read = 0
                      /\ LeftForRetry(id)
                /\ (~h.resp.raises /\ h.resp.content_length <= 10485760 /\ over # {}) =>
                      /\ h.did.read = BytesUpTo(chunks, Min0(over))
                      /\ LeftForRetry(id)

\* one pass met a response that declared more than the ceiling and a
\* response without a declared length that went over it mid-stream, and
\* committed
C21_Witness ==
    /\ pdf.ran /\ ~pdf.raised
    /\ \E i, j \in pdf.selected :
          /\ pdf.handled[i].did.outcome = "too_large"
          /\ pdf.handled[j].did.outcome = "exceeded"
          /\ pdf.handled[j].resp.content_length = 0
          /\ pdf.handled[j].did.read > 10485760

\* C30: an Attachment that is not downloaded has no local_path and no
\* extracted_text, one that is downloaded has a local_path; a pass selects no
\* row that was downloaded before it and leaves every such row as it was.
C30_AttachmentDownloadedOnce ==
    /\ \A a \in db.attachments :
          /\ ~a.is_downloaded => (a.local_path = None /\ a.extracted_text = None)
          /\ a.is_downloaded => a.local_path # None
    /\ pdf.ran =>
          \A b \in pdf.before :
              b.is_downloaded => (b.id \notin pdf.selected /\ b \in db.attachments)

\* a pass that downloaded a row while another row, downloaded by an earlier
\* pass with its text, was in the table
C30_Witness ==
    /\ pdf.ran /\ ~pdf.raised
    /\ \E b \in pdf.before : b.is_downloaded /\ b.extracted_text # None
    /\ \E id \in pdf.selected :
          /\ pdf.handled[id].did.outcome = "downloaded"
          /\ AttachmentOf(db.attachments, id).is_downloaded

----------------------------------------------------------------------------
(* Properties of whole sync calls *)

\* C22: the PDF pass runs only in a sync_brightwheel call that has committed
\* (never in a call that raises), and however it ends, with an exception
\* included, the call returns normally and the committed rows hold the items
\* of the call and the Sync State it wrote.
C22_PdfPassBestEffort ==
    /\ call.status = "error" => call.pdf = "none"
    /\ call.pdf # "none" =>
          /\ call.source = "brightwheel" /\ call.status = "ok"
          /\ call.before.items \subseteq db.items
          /\ Cardinality(db.items) = Cardinality(call.before.items) + call.total_new
          /\ db.sync_state["brightwheel"] # None
          /\ db.sync_state["brightwheel"][1].last_sync_at = call.now
          /\ \A x \in Sources \ {"brightwheel"} :
                db.sync_state[x] = call.before.sync_state[x]
          /\ session = db

\* a sync_brightwheel call stored a new item with a PDF attachment, its PDF
\* pass raised, and the call returned
C22_Witness ==
    /\ call.pdf = "raised" /\ call.status = "ok"
    /\ call.total_new > 0
    /\ pending_pdfs(db) # {}

\* the source_ids a call was fed that can be stored and were not stored
\* before the call
NewIds(c) ==
    {c.fed[k].source_id : k \in {j \in 1..Len(c.fed) :
        /\ c.fed[j].parsable
        /\ c.fed[j].source_id \notin {"bw_act_", "bw_msg_"}
        /\ \A i \in c.before.items : i.source_id # c.fed[j].source_id}}

\* C23: a call that returns reports as many new items as it added rows, one
\* for each source_id it was fed that was not stored before; a record whose
\* source_id was stored before the call or earlier in it is not counted and
\* not inserted again, and every row of before is still there.
C23_ReportedCountIsRowsAdded ==
    call.status = "ok" =>
        /\ call.total_new = Cardinality(db.items) - Cardinality(call.before.items)
        /\ call.total_new = Cardinality(NewIds(call))
        /\ call.before.items \subseteq db.items
        /\ \A k \in 1..Len(call.fed) :
              Cardinality({i \in db.items : i.source_id = call.fed[k].source_id}) <= 1

\* a call fed three records that were new and one stored by the call before
\* it reported 3
C23_Witness ==
    /\ call.status = "ok" /\ call.n = 2
    /\ Len(call.fed) = 4
    /\ Cardinality(NewIds(call)) = 3
    /\ Cardinality({k \in 1..4 :
          \E i \in call.before.items : i.source_id = call.fed[k].source_id}) = 1
    /\ call.total_new = 3
    /\ Cardinality(db.items) = 4

\* C27: a call that was fed a record that cannot be normalized returns
\* normally: the other records it was fed are stored and the Sync State is
\* written.
C27_UnparsedRecordSkipped ==
    (call.n > 0 /\ \E k \in 1..Len(call.fed) : ~call.fed[k].parsable) =>
        /\ call.status = "ok"
        /\ \A k \in 1..Len(call.fed) :
              call.fed[k].parsable =>
                  \E i \in db.items : i.source_id = call.fed[k].source_id
        /\ db.sync_state[call.source] # None

----------------------------------------------------------------------------
(* Properties of the units of work *)

\* C29: each unit of work is committed before the next one starts: when
\* sync_gmail is about to fetch its next page, the rows the pages before it
\* stored are committed and no transaction is open
C29_PageCommittedBeforeNextFetch ==
    (sync.pc = "gmail_page" /\ sync.pages_fetched >= 1) =>
        session.items = db.items

----------------------------------------------------------------------------
(* Properties of the Daily Summary table *)

\* no two rows of the table have the same date or the same id
OneRowPerDate(rows) ==
    \A r1 \in rows, r2 \in rows : (r1.date = r2.date \/ r1.id = r2.id) => r1 = r2

\* the days of the window for which the running call has written the row
WrittenDays == {k \in DOMAIN sum.log : sum.log[k].called}

\* C24: the Daily Summary table, committed or as the running call sees it,
\* never holds two rows for one date, whatever forced and non-forced calls
\* came before; a day the call writes keeps the row it had (same id) and
\* gets a new row only where it had none, and every other row is untouched.
C24_OneSummaryPerDate ==
    /\ OneRowPerDate(summaries)
    /\ OneRowPerDate(sum.rows)
    /\ \A k \in DOMAIN sum.log :
          LET e == sum.log[k]
              old == {r \in sum.before : r.date = e.date}
              new == {r \in sum.rows : r.date = e.date}
          IN  IF e.called
              THEN /\ Cardinality(new) = 1
                   /\ (e.existing_id = None) = (old = {})
                   /\ \A r \in new :
                         IF old = {}
                         THEN r.id \notin {b.id : b \in sum.before}
                         ELSE \E b \in old : r.id = b.id /\ e.existing_id = Some(b.id)
              ELSE new = old
    /\ Cardinality(sum.rows) =
          Cardinality(sum.before)
          + Cardinality({k \in WrittenDays : sum.log[k].existing_id = None})

\* a later call wrote a day that had a row, not forced because the day's
\* items had changed or forced although the row was up to date: the row
\* kept its id and the table has as many rows as before
C24_Witness ==
    /\ sum.pc = "day"
    /\ sum.before # {}
    /\ \E k \in WrittenDays :
          /\ sum.log[k].existing_id # None
          /\ (sum.force <=> sum.log[k].uptodate)
          /\ \E r \in sum.rows :
                /\ r.date = sum.log[k].date
                /\ r.id = sum.log[k].existing_id[1]
                /\ r.generated_at = sum.now
                /\ r \notin sum.before
    /\ Cardinality(sum.rows) = Cardinality(sum.before)

----------------------------------------------------------------------------
(* Properties of the response parsing *)

\* the parts of a text that are a JSON object
ObjectsIn(text) ==
    {part \in {SubSeq(text, i, j) : i \in 1..Len(text), j \in 1..Len(text)} :
        IsJsonObject(part)}

\* C25: a response that contains no JSON object at all is stored as a row
\* with four empty category lists and the raw response text as overview, and
\* a response that is not JSON but embeds a brace-delimited JSON object is
\* stored as a row with the categories and the overview of that object.
C25_FallbackKeepsTextOrEmbeddedObject ==
    parse.done =>
        /\ ObjectsIn(parse.text) = {} =>
              /\ ~parse.raised
              /\ parse.row # None
              /\ parse.row[1].key_dates = <<>>
              /\ parse.row[1].deadlines = <<>>
              /\ parse.row[1].curriculum_updates = <<>>
              /\ parse.row[1].action_items = <<>>
              /\ parse.row[1].raw_summary = parse.text
        /\ (ObjectsIn(parse.text) # {} /\ ~IsJsonObject(parse.text)) =>
              /\ ~parse.raised
              /\ parse.row # None
              /\ \E object \in ObjectsIn(parse.text) :
                    /\ parse.row[1].key_dates = ObjectOf(object).key_dates
                    /\ parse.row[1].deadlines = ObjectOf(object).deadlines
                    /\ parse.row[1].curriculum_updates = ObjectOf(object).curriculum_updates
                    /\ parse.row[1].action_items = ObjectOf(object).action_items
                    /\ parse.row[1].raw_summary = ObjectOf(object).overview

----------------------------------------------------------------------------
(* Properties of the worker threads *)

\* the positions in the signals of a run that are not progress messages
TerminalSignals ==
    {k \in DOMAIN run.signals : run.signals[k].signal # "progress_signal"}

\* C26: a run of the sync worker or of the summary worker that has ended has
\* emitted exactly one terminal signal, as its last signal: finished without
\* argument when nothing raised, error with the one message string when
\* something did, never both; a run that has not ended has emitted none,
\* however many progress messages it emitted.
C26_OneTerminalSignal ==
    /\ run.pc = "done" =>
          /\ TerminalSignals = {Len(run.signals)}
          /\ LET final == run.signals[Len(run.signals)]
             IN  IF run.raised
                 THEN /\ final.signal = "error_signal"
                      /\ Len(final.args) = 1
                      /\ final.args[1] \in ErrorMessages
                 ELSE /\ final.signal = "finished_signal"
                      /\ final.args = <<>>
    /\ run.pc \in {"try", "loop", "call"} => TerminalSignals = {}
    /\ run.pc = "idle" => run.signals = <<>>

\* the second run, a sync worker, emitted a progress message, then a sync
\* function raised and the run ended with the error signal alone
C26_Witness ==
    /\ run.n = 2
    /\ run.kind = "sync"
    /\ run.pc = "done"
    /\ run.raised
    /\ Len(run.signals) = 2
    /\ run.signals[1].signal = "progress_signal"
    /\ run.signals[2] = Signal("error_signal", <<"boom">>)

----------------------------------------------------------------------------
(* Properties of the stored Communication Items *)

\* C28: no step of a sync call, of the summary generation, of the checklist
\* reconciliation or of the PDF post-processor modifies or deletes a
\* committed Communication Item: every row is there after the step with the
\* fields it had, and the set of rows only grows.
C28_StoredItemsNeverChange ==
    [][\A i \in db.items : i \in db'.items]_vars

\* two sync calls have stored items, the second beside the rows of the
\* first, a summary generation with its reconciliation has run over them and
\* the post-processor has downloaded an attachment
C28_Witness ==
    /\ call.n = 2
    /\ call.before.items # {}
    /\ call.before.items # db.items
    /\ call.before.items \subseteq db.items
    /\ sum_out.status = "ok"
    /\ summaries # {}
    /\ checklist # {}
    /\ \E a \in db.attachments : a.is_downloaded

----------------------------------------------------------------------------
(* Properties of the matching *)

\* the ratio of an existing item's text and a new text reaches 0.75
Qualifies(b, text) ==
    4 * ratios[<<b.item_text, text>>][1] >= 3 * ratios[<<b.item_text, text>>][2]

\* item c is at least as good a match for text as item d: a higher ratio, or
\* the same ratio and not later in the iteration order
Precedes(c, d, text) ==
    LET rc == ratios[<<c.item_text, text>>]
        rd == ratios[<<d.item_text, text>>]
    IN  \/ rc[1] * rd[2] > rd[1] * rc[2]
        \/ rc[1] * rd[2] = rd[1] * rc[2] /\ c.id <= d.id

\* the items the last run found that no new text before index k had matched
\* and that qualify for the text at k
Candidates(k) ==
    {b \in last.before :
        /\ b.id \notin DOMAIN last.matched \/ last.matched[b.id] >= k
        /\ Qualifies(b, last.new_texts[k])}

\* the items the last run found, left unmatched and kept because checked
KeptUnmatched ==
    {b \in last.before : b.id \notin DOMAIN last.matched /\ b.is_checked}

\* C31: the matching of a reconciliation run is one-to-one: no two existing
\* items are matched by the same new text, and each new text is matched to
\* the not-yet-matched item of highest ratio >= 0.75, the earliest on ties,
\* or to none when there is no such item; after the run the category holds
\* one item per entry of the new-text list (the matched item with the new
\* text, or a new unchecked row) plus the unmatched checked items, and
\* nothing else.
C31_MatchingOneToOne ==
    LastWasReconciliation =>
        /\ \A i \in DOMAIN last.matched, j \in DOMAIN last.matched :
              last.matched[i] = last.matched[j] => i = j
        /\ \A k \in 1..Len(last.new_texts) :
              IF Candidates(k) = {}
              THEN k \notin matched_new_indices(last.matched)
              ELSE \E c \in Candidates(k) :
                      /\ c.id \in DOMAIN last.matched
                      /\ last.matched[c.id] = k
                      /\ \A d \in Candidates(k) : Precedes(c, d, last.new_texts[k])
        /\ Cardinality(Existing(checklist, last.category))
              = Len(last.new_texts) + Cardinality(KeptUnmatched)
        /\ \A r \in Existing(checklist, last.category) :
              \/ /\ r.id \in DOMAIN last.matched
                 /\ r.item_text = last.new_texts[last.matched[r.id]]
              \/ r \in KeptUnmatched
              \/ /\ r.id \notin {b.id : b \in last.before}
                 /\ ~r.is_checked
                 /\ r.checked_at = None
                 /\ \E k \in (1..Len(last.new_texts)) \ matched_new_indices(last.matched) :
                       r.item_text = last.new_texts[k]

\* a run found two items that both reach 0.75 for a new text worded
\* differently from both, with the same ratio: the text went to the earlier
\* one, and the second new text of the list to the other
C31_Witness ==
    /\ LastWasReconciliation
    /\ Len(last.new_texts) = 2
    /\ Cardinality(Candidates(1)) = 2
    /\ \A c \in Candidates(1), d \in Candidates(1) :
          /\ Precedes(c, d, last.new_texts[1]) \/ c.id > d.id
          /\ c.item_text # last.new_texts[1]
    /\ \E c \in Candidates(1), d \in Candidates(1) :
          /\ c.id < d.id
          /\ last.matched[c.id] = 1
          /\ d.id \in DOMAIN last.matched
          /\ last.matched[d.id] = 2

----------------------------------------------------------------------------
(* Properties of the change detection *)

\* the day of entry e needed a summary: it has an item and no stored row
\* with exactly the ids read
NeedsSummary(e) == e.ids # <<>> /\ ~e.uptodate

\* C32: a call with force=false makes an LLM call for a day exactly when the
\* day has an item and has no Daily Summary or one whose source_item_ids
\* differ from the sorted ids of the day's items; when the call has returned
\* every day of the window that had an item has exactly one row, with the
\* ids the call read as source_item_ids.
C32_UnforcedCallSummarizesChangedDays ==
    /\ (sum.pc = "day" /\ ~sum.force) =>
          \A k \in DOMAIN sum.log : sum.log[k].called <=> NeedsSummary(sum.log[k])
    /\ (sum_out.status = "ok" /\ ~sum_out.force) =>
          \A k \in DOMAIN sum_out.log :
              LET e == sum_out.log[k]
              IN  /\ e.called <=> NeedsSummary(e)
                  /\ e.ids # <<>> =>
                        /\ Cardinality({r \in summaries : r.date = e.date}) = 1
                        /\ \A r \in summaries :
                              r.date = e.date => r.source_item_ids = e.ids

\* a call with force=false found a day's row with other ids than the day's
\* items now have and wrote the day again, and skipped another day whose row
\* was current
C32_Witness ==
    /\ sum_out.status = "ok"
    /\ ~sum_out.force
    /\ \E j \in DOMAIN sum_out.log, k \in DOMAIN sum_out.log :
          /\ sum_out.log[j].existing_id # None
          /\ ~sum_out.log[j].uptodate
          /\ sum_out.log[j].called
          /\ \E r \in summaries :
                /\ r.id = sum_out.log[j].existing_id[1]
                /\ r.source_item_ids = sum_out.log[j].ids
                /\ Len(r.source_item_ids) >= 2
          /\ sum_out.log[k].uptodate
          /\ ~sum_out.log[k].called

----------------------------------------------------------------------------
(* Properties of the mail pass's page sequence *)

\* C33: within one mail pass the pages are fetched in sequence: the first
\* fetch uses the page_cursor the previous successful pass persisted (null
\* on the first run), every later fetch uses the continuation token the
\* fetch before it returned, and no page is fetched twice or out of order.
\* (kept is what the last committed pass persisted, until this pass commits.)
C33_PagesFetchedInSequence ==
    /\ (cursor.pc # "done" /\ cursor.used # <<>>) => cursor.used[1] = cursor.kept
    /\ \A k \in 2..Len(cursor.used) : cursor.used[k] = cursor.got[k - 1]
    /\ \A j \in 1..Len(cursor.used) : \A k \in (j + 1)..Len(cursor.used) :
          PageAt(cursor.used[j]) < PageAt(cursor.used[k])
    /\ cursor.passes = 1 /\ cursor.used # <<>> => cursor.used[1] = None

\* a later pass began at the token a pass before it persisted and has
\* fetched two pages
C33_Witness ==
    /\ cursor.passes > 1
    /\ Len(cursor.used) = 2
    /\ cursor.used[1] # None

----------------------------------------------------------------------------
(* Properties of the scan with since *)

RECURSIVE FeedOrder(_)
\* the records of a feed in feed order
FeedOrder(feed) == IF feed = <<>> THEN <<>> ELSE Head(feed) \o FeedOrder(Tail(feed))

\* the record has a timestamp that parses to an instant before since
ParsedBefore(record, since) ==
    \E t \in FeedInstants :
        /\ record.created = Some([parses |-> TRUE, ts |-> t])
        /\ since # None
        /\ t < since[1]

\* the records of the feed before the first one with a parsed timestamp
\* before since: the whole feed if there is none
BeforeFirstOlder(feed, since) ==
    LET flat == FeedOrder(feed)
        older == {k \in 1..Len(flat) : ParsedBefore(flat[k], since)}
    IN IF older = {} THEN flat
       ELSE SubSeq(flat, 1, (CHOOSE k \in older : \A j \in older : k <= j) - 1)

\* the pages of the feed that hold a record with a parsed timestamp before since
PagesWithOlder(feed, since) ==
    {p \in 1..Len(feed) : \E k \in 1..Len(feed[p]) : ParsedBefore(feed[p][k], since)}

\* C34: fetch_all_activities and fetch_all_messages with since return
\* exactly the records that come, in feed order, before the first record
\* whose parsed timestamp is earlier than since; the call returns at that
\* record, the page holding it being the last one fetched; a record without
\* a timestamp or with one that does not parse is never taken for older and
\* is in the result.
C34_ScanStopsAtFirstOlder ==
    scan.pc = "returned" =>
        /\ scan.all = BeforeFirstOlder(scan.feed, scan.since)
        /\ \A p \in PagesWithOlder(scan.feed, scan.since) : scan.fetched <= p
        /\ \A k \in 1..Len(scan.all) :
              scan.since # None => ~ParsedBefore(scan.all[k], scan.since)
        /\ PagesWithOlder(scan.feed, scan.since) = {} =>
              \A p \in 1..Len(scan.feed) : \A k \in 1..Len(scan.feed[p]) :
                  \E j \in 1..Len(scan.all) : scan.all[j] = scan.feed[p][k]

\* a call with since returned at an older record of the first page of a
\* two-page feed, after a record whose timestamp does not parse
C34_Witness ==
    /\ scan.pc = "returned"
    /\ scan.since # None
    /\ Len(scan.feed) = 2
    /\ scan.fetched = 1
    /\ Len(scan.all) = 1
    /\ scan.all[1].created = Some([parses |-> FALSE, ts |-> 0])

----------------------------------------------------------------------------
(* Properties of a reconciliation run beside the user's checks *)

\* C35: an item the user checks while a reconciliation run of its category
\* is in flight is not deleted by the run: every item committed as checked
\* at the moment the run commits exists afterwards.
C35_CheckedItemSurvivesRun ==
    recon.pc = "done" => \A item_id \in recon.checked : HasItem(checklist, item_id)

----------------------------------------------------------------------------
(* Properties of the incremental childcare passes *)

\* the record with this id is in the feed
InFeed(id) == \E k \in 1..Len(incr.source) : incr.source[k].id = id

\* C36: the incremental childcare sync loses no record: every record present
\* at the source is stored by a successful pass in the end, a record created
\* after a pass fetched the feed and before that pass set last_sync_at
\* included.
C36_NoRecordLost ==
    \A id \in 1..MaxId : InFeed(id) ~> (id \in incr.stored)

----------------------------------------------------------------------------
(* Properties of what follows a sync run *)

\* no signal waits for its slot and no worker is running: nothing more
\* happens until the user asks for it
Quiet ==
    /\ chain.queue = <<>>
    /\ chain.u.sync_threads = {}
    /\ chain.u.summary_threads = {}

\* C37: every successful sync is followed by a summary generation that reads
\* the items the sync committed, also when another summary run was in flight
\* when the sync finished: once its signal is handled and the workers have
\* ended, the sync is owed no summary generation.
C37_SyncFollowedBySummary == Quiet => ~chain.owed

----------------------------------------------------------------------------
(* Properties of a run over several sources *)

\* the source list of the last sync worker started
RunSources == chain.u.sync_worker[1].sources

\* C40: a run syncs its sources in list order (mail, childcare, messaging
\* for Sync All) and the first failure ends it: the sources after the failed
\* one are not attempted, the sources before it keep what their passes
\* committed, the run emits error_signal and not finished_signal, and the
\* slot of error_signal starts no summary generation.
C40_FirstFailureEndsRun ==
    /\ chain.status # "none" =>
          /\ RunSources \in SourceLists
          /\ chain.attempted = SubSeq(RunSources, 1, Len(chain.attempted))
          /\ \A k \in 1..Len(chain.committed) :
                <<chain.u.sync_worker[1].id, chain.committed[k]>> \in chain.rows
    /\ chain.status = "failed" =>
          /\ chain.emitted = "error"
          /\ chain.todo = SubSeq(RunSources, Len(chain.committed) + 1, Len(RunSources))
          /\ chain.failed_at = None => chain.attempted = <<>> /\ chain.committed = <<>>
          /\ chain.failed_at # None =>
                /\ chain.attempted = Append(chain.committed, chain.failed_at[1])
                /\ chain.failed_at[1] = RunSources[Len(chain.attempted)]
    /\ chain.status = "finished" =>
          /\ chain.emitted = "finished"
          /\ chain.attempted = RunSources
          /\ chain.committed = RunSources
    /\ chain.handled.signal = "error" => ~chain.handled.started

\* a Sync All run failed at its second source, after the first had
\* committed, and the slot of its error signal has run while no summary
\* worker was running
C40_Witness ==
    /\ chain.status = "failed"
    /\ RunSources = <<"gmail", "brightwheel", "whatsapp">>
    /\ chain.committed = <<"gmail">>
    /\ chain.failed_at = Some("brightwheel")
    /\ chain.handled.signal = "error"
    /\ chain.queue = <<>>
    /\ chain.u.summary_threads = {}
    /\ chain.u.summary_worker = None

----------------------------------------------------------------------------
(* Properties of the ids a Daily Summary refers to *)

\* the ids of the committed Communication Items
StoredIds == {i.id : i \in db.items}

\* C38: every id in the source_item_ids of a persisted Daily Summary is the
\* id of a persisted Communication Item, in every state, a sync pass writing
\* to its session, committing or rolling back beside the summary generation
\* included.
C38_SummaryIdsAreStoredItems ==
    \A r \in summaries : \A k \in 1..Len(r.source_item_ids) :
        r.source_item_ids[k] \in StoredIds

\* a Daily Summary that refers to an item is committed while a sync pass
\* holds a flushed row it has not committed
C38_Witness ==
    /\ \E r \in summaries : r.source_item_ids # <<>>
    /\ sync.pc # "idle"
    /\ session.items # db.items

----------------------------------------------------------------------------
(* Properties of is_checked and checked_at *)

\* the row has the two fields of the row it was before the step
SameCheck(r, old) == r.is_checked = old.is_checked /\ r.checked_at = old.checked_at

\* C39: for every checklist item checked_at is non-null exactly when
\* is_checked is true.  toggle_item and set_item_checked set or clear both on
\* the one item they name and change nothing when the id is missing; a
\* reconciliation creates its items unchecked with no checked_at and changes
\* neither field of an item that existed.
C39_CheckedAtIffChecked ==
    [][ /\ \A r \in checklist' : r.is_checked <=> r.checked_at # None
        /\ last'.op = "sync_items_from_summary" =>
              \A r \in checklist' :
                  IF HasItem(checklist, r.id)
                  THEN SameCheck(r, GetItem(checklist, r.id))
                  ELSE ~r.is_checked /\ r.checked_at = None
        /\ last'.op \in {"toggle_item", "set_item_checked"} =>
              /\ ~last'.found => checklist' = checklist
              /\ last'.found =>
                    /\ {r.id : r \in checklist'} = {r.id : r \in checklist}
                    /\ \A r \in checklist' :
                          r.id # last'.id => r = GetItem(checklist, r.id)
        /\ (last'.op = "toggle_item" /\ last'.found) =>
              /\ GetItem(checklist', last'.id).is_checked
                    = ~GetItem(checklist, last'.id).is_checked
              /\ last'.ret = GetItem(checklist', last'.id).is_checked
      ]_vars

\* a reconciliation has run over a checked item and has created an item
C39_Witness ==
    /\ last.op = "sync_items_from_summary"
    /\ \E r \in checklist : \E b \in last.before :
          b.id = r.id /\ b.is_checked /\ r.is_checked /\ r.checked_at # None
    /\ \E r \in checklist : r.id \notin {b.id : b \in last.before}

====
